---- MODULE Spec2Model ----
(***************************************************************************)
(* Model of the HTTP client of spry (src/src/http.cpp): the request        *)
(* worker _http_worker, its helpers, and the Lua-facing consumer API       *)
(* (done / result / progress / __gc).                                      *)
(*                                                                         *)
(* Bytes are their ASCII codes; a C string or a ByteBuf is a sequence of   *)
(* bytes.  No modelled input contains a NUL byte, so the C string held by  *)
(* a buffer is the whole sequence.  All modelled numbers stay far below    *)
(* 2^31, so the u64 / i64 / int arithmetic of the code never wraps here.   *)
(***************************************************************************)
EXTENDS Integers, Sequences, FiniteSets, TLC

\* ------------------------------------------------------------------------
\* Characters and string literals of the source
\* ------------------------------------------------------------------------
CR == 13
LF == 10
SP == 32
COLON == 58
SLASH == 47

STR_https      == <<104,116,116,112,115,58,47,47>>                  \* "https://"
STR_http       == <<104,116,116,112,58,47,47>>                      \* "http://"
STR_443        == <<52,52,51>>                                      \* "443"
STR_80         == <<56,48>>                                         \* "80"
STR_slash      == <<47>>                                            \* "/"
STR_GET        == <<71,69,84>>                                      \* "GET"
STR_POST       == <<80,79,83,84>>                                   \* "POST"
STR_CRLF       == <<13,10>>                                         \* "\r\n"
STR_http11     == <<32,72,84,84,80,47,49,46,49,13,10>>              \* " HTTP/1.1\r\n"
STR_host_hdr   == <<72,111,115,116,58,32>>                          \* "Host: "
STR_user_agent == <<85,115,101,114,45,65,103,101,110,116,58,32,83,112,114,121,47,49,46,48,13,10>> \* "User-Agent: Spry/1.0\r\n"
STR_conn_close == <<67,111,110,110,101,99,116,105,111,110,58,32,99,108,111,115,101,13,10>> \* "Connection: close\r\n"
STR_colon_sp   == <<58,32>>                                         \* ": "
STR_range      == <<82,97,110,103,101,58,32,98,121,116,101,115,61>> \* "Range: bytes="
STR_dash_crlf  == <<45,13,10>>                                      \* "-\r\n"
STR_cl_hdr     == <<67,111,110,116,101,110,116,45,76,101,110,103,116,104,58,32>> \* "Content-Length: "
STR_content_length    == <<99,111,110,116,101,110,116,45,108,101,110,103,116,104>>                \* "content-length"
STR_transfer_encoding == <<116,114,97,110,115,102,101,114,45,101,110,99,111,100,105,110,103>>     \* "transfer-encoding"
STR_location   == <<108,111,99,97,116,105,111,110>>                 \* "location"
STR_chunked    == <<99,104,117,110,107,101,100>>                    \* "chunked"
STR_Chunked    == <<67,104,117,110,107,101,100>>                    \* "Chunked"

\* sizes of the fixed buffers of the source
HOST_SIZE == 256
PORT_SIZE == 8
PATH_SIZE == 2048
LOCATION_SIZE == 2048
FILE_BUF_SIZE == 4096
READ_EXACT_MAX == 65536
MAX_REDIRECTS == 10

\* ------------------------------------------------------------------------
\* libc helpers, as the source uses them
\* ------------------------------------------------------------------------
Min(a, b) == IF a < b THEN a ELSE b

Drop(s, n) == SubSeq(s, n + 1, Len(s))

Take(s, n) == SubSeq(s, 1, Min(n, Len(s)))

\* strncmp(s, p, strlen(p)) == 0
HasPrefix(s, p) == Len(s) >= Len(p) /\ SubSeq(s, 1, Len(p)) = p

\* strchr(s, c): 1-based index of the first c, 0 for a null result
strchr(s, c) ==
  IF \E i \in 1..Len(s) : s[i] = c
  THEN CHOOSE i \in 1..Len(s) : s[i] = c /\ \A j \in 1..(i - 1) : s[j] # c
  ELSE 0

\* strstr(s, sub) != NULL
strstr(s, sub) ==
  \E i \in 1..(Len(s) - Len(sub) + 1) : SubSeq(s, i, i + Len(sub) - 1) = sub

\* the lower-casing of the ci_eq lambda and of _push_headers_table
ToLower(c) == IF c >= 65 /\ c <= 90 THEN c + 32 ELSE c

\* ci_eq(a, b, n)
ci_eq(a, b, n) == \A i \in 1..n : ToLower(a[i]) = ToLower(b[i])

IsDigit(c) == c >= 48 /\ c <= 57

IsSpace(c) == c = 32 \/ (c >= 9 /\ c <= 13)

RECURSIVE SkipWhile(_, _)
SkipWhile(s, c) ==
  IF s # <<>> /\ Head(s) = c THEN SkipWhile(Tail(s), c) ELSE s

RECURSIVE SkipSpace(_)
SkipSpace(s) == IF s # <<>> /\ IsSpace(Head(s)) THEN SkipSpace(Tail(s)) ELSE s

RECURSIVE DigitsValue(_, _)
DigitsValue(s, acc) ==
  IF s # <<>> /\ IsDigit(Head(s))
  THEN DigitsValue(Tail(s), acc * 10 + (Head(s) - 48))
  ELSE acc

\* strtol / strtoll(s, nullptr, 10): white space, an optional sign, digits
strtol(s) ==
  LET t == SkipSpace(s)
  IN  IF t # <<>> /\ Head(t) = 45 THEN 0 - DigitsValue(Tail(t), 0)
      ELSE IF t # <<>> /\ Head(t) = 43 THEN DigitsValue(Tail(t), 0)
      ELSE DigitsValue(t, 0)

RECURSIVE DecDigits(_)
DecDigits(n) == IF n < 10 THEN <<48 + n>> ELSE Append(DecDigits(n \div 10), 48 + (n % 10))

\* snprintf("%lld") / snprintf("%llu") of a non-negative number
FormatDec(n) == DecDigits(n)

\* ------------------------------------------------------------------------
\* _read_line, _hex_to_u64
\* ------------------------------------------------------------------------
RECURSIVE read_line_loop(_, _)
read_line_loop(s, line) ==
  IF s = <<>> THEN [ok |-> FALSE, line |-> line, rest |-> <<>>]
  ELSE IF Head(s) = CR
       THEN IF Len(s) < 2 THEN [ok |-> FALSE, line |-> line, rest |-> <<>>]
            ELSE IF s[2] = LF THEN [ok |-> TRUE, line |-> line, rest |-> Drop(s, 2)]
            ELSE read_line_loop(Drop(s, 2), line \o <<CR, s[2]>>)
       ELSE read_line_loop(Tail(s), Append(line, Head(s)))

\* _read_line over the bytes the connection still delivers: ok, the line
\* without its CR LF, and the bytes left on the connection
_read_line(s) == read_line_loop(s, <<>>)

RECURSIVE hex_loop(_, _)
hex_loop(s, val) ==
  IF s = <<>> THEN val
  ELSE LET c == Head(s)
           v == val * 16
       IN  IF c >= 48 /\ c <= 57 THEN hex_loop(Tail(s), v + (c - 48))
           ELSE IF c >= 97 /\ c <= 102 THEN hex_loop(Tail(s), v + (c - 97 + 10))
           ELSE IF c >= 65 /\ c <= 70 THEN hex_loop(Tail(s), v + (c - 65 + 10))
           ELSE v

\* _hex_to_u64: the shift is applied before the character is classified
_hex_to_u64(s) == hex_loop(s, 0)

\* ------------------------------------------------------------------------
\* _url_parse
\* ------------------------------------------------------------------------
NoUrl == [ok |-> FALSE, https |-> FALSE, host |-> <<>>, port |-> <<>>, path |-> <<>>]

\* a faulty variant: the path is taken from behind the slash
url_parse_rest_noslash(https, u) ==
  LET slash  == strchr(u, SLASH)
      colon0 == strchr(u, COLON)
      colon  == IF colon0 # 0 /\ slash # 0 /\ colon0 > slash THEN 0 ELSE colon0
      path   == IF slash # 0 THEN Take(Drop(u, slash), PATH_SIZE - 1) ELSE STR_slash
  IN  IF colon # 0
      THEN LET hlen == colon - 1
               port_end == IF slash # 0 THEN slash ELSE Len(u) + 1
               plen == port_end - (colon + 1)
           IN  IF hlen >= HOST_SIZE \/ plen >= PORT_SIZE THEN NoUrl
               ELSE [ok |-> TRUE, https |-> https, host |-> SubSeq(u, 1, hlen),
                     port |-> SubSeq(u, colon + 1, port_end - 1), path |-> path]
      ELSE LET host_end == IF slash # 0 THEN slash ELSE Len(u) + 1
               hlen == host_end - 1
           IN  IF hlen >= HOST_SIZE THEN NoUrl
               ELSE [ok |-> TRUE, https |-> https, host |-> SubSeq(u, 1, hlen),
                     port |-> IF https THEN STR_443 ELSE STR_80, path |-> path]

url_parse_rest(https, u) ==
  LET slash  == strchr(u, SLASH)
      colon0 == strchr(u, COLON)
      colon  == IF colon0 # 0 /\ slash # 0 /\ colon0 > slash THEN 0 ELSE colon0
      path   == IF slash # 0 THEN Take(Drop(u, slash - 1), PATH_SIZE - 1) ELSE STR_slash
  IN  IF colon # 0
      THEN LET hlen == colon - 1
               port_end == IF slash # 0 THEN slash ELSE Len(u) + 1
               plen == port_end - (colon + 1)
           IN  IF hlen >= HOST_SIZE \/ plen >= PORT_SIZE THEN NoUrl
               ELSE [ok |-> TRUE, https |-> https, host |-> SubSeq(u, 1, hlen),
                     port |-> SubSeq(u, colon + 1, port_end - 1), path |-> path]
      ELSE LET host_end == IF slash # 0 THEN slash ELSE Len(u) + 1
               hlen == host_end - 1
           IN  IF hlen >= HOST_SIZE THEN NoUrl
               ELSE [ok |-> TRUE, https |-> https, host |-> SubSeq(u, 1, hlen),
                     port |-> IF https THEN STR_443 ELSE STR_80, path |-> path]

_url_parse(url) ==
  IF HasPrefix(url, STR_https) THEN url_parse_rest(TRUE, Drop(url, 8))
  ELSE IF HasPrefix(url, STR_http) THEN url_parse_rest(FALSE, Drop(url, 7))
  ELSE NoUrl
\* ------------------------------------------------------------------------
\* Message literals of the source
\* ------------------------------------------------------------------------
MSG_oom            == <<111,117,116,32,111,102,32,109,101,109,111,114,121>>  \* "out of memory"
MSG_invalid_url    == <<105,110,118,97,108,105,100,32,85,82,76,58,32>>  \* "invalid URL: "
MSG_connection_to  == <<99,111,110,110,101,99,116,105,111,110,32,116,111,32>>  \* "connection to "
MSG_failed         == <<32,102,97,105,108,101,100>>  \* " failed"
MSG_send           == <<102,97,105,108,101,100,32,116,111,32,115,101,110,100,32,114,101,113,117,101,115,116>>  \* "failed to send request"
MSG_status         == <<102,97,105,108,101,100,32,116,111,32,114,101,97,100,32,115,116,97,116,117,115,32,108,105,110,101>>  \* "failed to read status line"
MSG_headers        == <<102,97,105,108,101,100,32,116,111,32,114,101,97,100,32,104,101,97,100,101,114,115>>  \* "failed to read headers"
MSG_oom_redirect   == <<111,117,116,32,111,102,32,109,101,109,111,114,121,32,111,110,32,114,101,100,105,114,101,99,116>>  \* "out of memory on redirect"
MSG_open           == <<102,97,105,108,101,100,32,116,111,32,111,112,101,110,32,111,117,116,112,117,116,32,102,105,108,101,58,32>>  \* "failed to open output file: "
MSG_chunked        == <<102,97,105,108,101,100,32,116,111,32,114,101,97,100,32,99,104,117,110,107,101,100,32,98,111,100,121>>  \* "failed to read chunked body"
MSG_write          == <<102,97,105,108,101,100,32,116,111,32,119,114,105,116,101,32,111,117,116,112,117,116,32,102,105,108,101>>  \* "failed to write output file"
MSG_body           == <<102,97,105,108,101,100,32,116,111,32,114,101,97,100,32,98,111,100,121>>  \* "failed to read body"
MSG_too_many       == <<116,111,111,32,109,97,110,121,32,114,101,100,105,114,101,99,116,115,32,40,109,97,120,32>>  \* "too many redirects (max "
MSG_rparen         == <<41>>  \* ")"
MSG_tls_crypto     == <<84,76,83,32,110,111,116,32,97,118,97,105,108,97,98,108,101,32,40,108,105,98,99,114,121,112,116,111,32,110,111,116,32,102,111,117,110,100,41>>  \* "TLS not available (libcrypto not found)"
MSG_tls_ssl        == <<84,76,83,32,110,111,116,32,97,118,97,105,108,97,98,108,101,32,40,108,105,98,115,115,108,32,110,111,116,32,102,111,117,110,100,41>>  \* "TLS not available (libssl not found)"
MSG_tls_syms       == <<84,76,83,32,110,111,116,32,97,118,97,105,108,97,98,108,101,32,40,109,105,115,115,105,110,103,32,79,112,101,110,83,83,76,32,115,121,109,98,111,108,115,41>>  \* "TLS not available (missing OpenSSL symbols)"
MSG_getaddrinfo    == <<103,101,116,97,100,100,114,105,110,102,111,40>>  \* "getaddrinfo("
MSG_connect        == <<99,111,110,110,101,99,116,40>>  \* "connect("
MSG_failed_colon   == <<41,32,102,97,105,108,101,100,58,32>>  \* ") failed: "
MSG_tls_ctx        == <<84,76,83,32,99,111,110,116,101,120,116,32,99,114,101,97,116,105,111,110,32,102,97,105,108,101,100>>  \* "TLS context creation failed"
MSG_tls_session    == <<84,76,83,32,115,101,115,115,105,111,110,32,99,114,101,97,116,105,111,110,32,102,97,105,108,101,100>>  \* "TLS session creation failed"
MSG_tls_handshake  == <<84,76,83,32,104,97,110,100,115,104,97,107,101,32,102,97,105,108,101,100,58,32>>  \* "TLS handshake failed: "
MSG_in_progress    == <<114,101,113,117,101,115,116,32,115,116,105,108,108,32,105,110,32,112,114,111,103,114,101,115,115>>  \* "request still in progress"
MSG_consumed       == <<114,101,113,117,101,115,116,32,97,108,114,101,97,100,121,32,99,111,110,115,117,109,101,100>>  \* "request already consumed"
ERROR_SIZE == 512

\* snprintf(req->error, sizeof(req->error), ...)
snprintf_error(s) == Take(s, ERROR_SIZE - 1)

\* ------------------------------------------------------------------------
\* Inputs: request descriptors, the existing output file, peer responses
\* ------------------------------------------------------------------------
URL_A == <<104,116,116,112,58,47,47,97,47,120>>  \* 'http://a/x'
URL_S == <<104,116,116,112,115,58,47,47,97,47,120>>  \* 'https://a/x'
URL_BAD == <<102,116,112,58,47,47,97>>  \* 'ftp://a'
URL_P == <<104,116,116,112,58,47,47,97,58,56,49,47,120>>  \* 'http://a:81/x'
URL_P7 == <<104,116,116,112,58,47,47,97,58,112,114,105,110,116,101,114,47,120>>  \* 'http://a:printer/x'
BODY_ab == <<97,98>>  \* 'ab'
FILE_xy == <<120,121>>  \* 'xy'
FILE_xyz == <<120,121,122>>  \* 'xyz'
HDR_name == <<88>>  \* 'X'
HDR_value == <<49>>  \* '1'
PATH_f             == <<102>>  \* "f"

\* HTTP/1.1 200 OK\r\nContent-Length: 5\r\n\r\nhello
RESP_cl5 ==
  <<72,84,84,80,47,49,46,49,32,50,48,48,32,79,75,13,10,67,111,110,116,101,110,116,45,76,101,110,103,116,104,58,32,53,13,10,13,10,104,101,108,108,111>>

\* HTTP/1.1 200 OK\r\nTransfer-Encoding: chunked\r\n\r\n4\r\nWiki\r\n5\r\npedia\r\n0\r\n\r\n
RESP_chunked ==
  <<72,84,84,80,47,49,46,49,32,50,48,48,32,79,75,13,10,84,114,97,110,115,102,101,114,45,69,110,99,111,100,105,110,103,58,32,99,104,117,110,107,101,100,13,10,13,10,52,13,10,87,105,107,105,13,10,53,13,10,112,101,100,105,97,13,10,48,13,10,13,10>>

\* HTTP/1.1 200 OK\r\nServer: s\r\n\r\nhi
RESP_close ==
  <<72,84,84,80,47,49,46,49,32,50,48,48,32,79,75,13,10,83,101,114,118,101,114,58,32,115,13,10,13,10,104,105>>

\* HTTP/1.1 200 OK\r\nContent-Length: 0\r\n\r\n
RESP_cl0 ==
  <<72,84,84,80,47,49,46,49,32,50,48,48,32,79,75,13,10,67,111,110,116,101,110,116,45,76,101,110,103,116,104,58,32,48,13,10,13,10>>

\* HTTP/1.1 200 OK\r\nContent-Length: 5\r\ntransfer-encoding: chunked\r\n\r\n2\r\nhi\r\n0\r\n\r\n
RESP_both ==
  <<72,84,84,80,47,49,46,49,32,50,48,48,32,79,75,13,10,67,111,110,116,101,110,116,45,76,101,110,103,116,104,58,32,53,13,10,116,114,97,110,115,102,101,114,45,101,110,99,111,100,105,110,103,58,32,99,104,117,110,107,101,100,13,10,13,10,50,13,10,104,105,13,10,48,13,10,13,10>>

\* HTTP/1.1 200 OK\r\nTransfer-Encoding: Chunked\r\n\r\n2\r\nhi\r\n0\r\n\r\n
RESP_Chunked ==
  <<72,84,84,80,47,49,46,49,32,50,48,48,32,79,75,13,10,84,114,97,110,115,102,101,114,45,69,110,99,111,100,105,110,103,58,32,67,104,117,110,107,101,100,13,10,13,10,50,13,10,104,105,13,10,48,13,10,13,10>>

\* HTTP/1.1 200 OK\r\nTransfer-Encoding: CHUNKED\r\n\r\n2\r\nhi\r\n0\r\n\r\n
RESP_CHUNKED ==
  <<72,84,84,80,47,49,46,49,32,50,48,48,32,79,75,13,10,84,114,97,110,115,102,101,114,45,69,110,99,111,100,105,110,103,58,32,67,72,85,78,75,69,68,13,10,13,10,50,13,10,104,105,13,10,48,13,10,13,10>>

\* HTTP/1.1 200 OK\r\nTransfer-Encoding: gzip\r\nCONTENT-LENGTH: 2\r\n\r\nhi
RESP_gzip ==
  <<72,84,84,80,47,49,46,49,32,50,48,48,32,79,75,13,10,84,114,97,110,115,102,101,114,45,69,110,99,111,100,105,110,103,58,32,103,122,105,112,13,10,67,79,78,84,69,78,84,45,76,69,78,71,84,72,58,32,50,13,10,13,10,104,105>>

\* HTTP/1.1 206 Partial Content\r\nContent-Length: 2\r\n\r\nzw
RESP_206 ==
  <<72,84,84,80,47,49,46,49,32,50,48,54,32,80,97,114,116,105,97,108,32,67,111,110,116,101,110,116,13,10,67,111,110,116,101,110,116,45,76,101,110,103,116,104,58,32,50,13,10,13,10,122,119>>

\* HTTP/1.1 206 Partial Content\r\nTransfer-Encoding: chunked\r\n\r\n2\r\nzw\r\n0\r\n\r\n
RESP_206_chunked ==
  <<72,84,84,80,47,49,46,49,32,50,48,54,32,80,97,114,116,105,97,108,32,67,111,110,116,101,110,116,13,10,84,114,97,110,115,102,101,114,45,69,110,99,111,100,105,110,103,58,32,99,104,117,110,107,101,100,13,10,13,10,50,13,10,122,119,13,10,48,13,10,13,10>>

\* HTTP/1.1 200 OK\r\nTransfer-Encoding: chunked\r\n\r\n1;x\r\na\r\n9\r\n123456789\r\n0\r\n\r\n
RESP_ext ==
  <<72,84,84,80,47,49,46,49,32,50,48,48,32,79,75,13,10,84,114,97,110,115,102,101,114,45,69,110,99,111,100,105,110,103,58,32,99,104,117,110,107,101,100,13,10,13,10,49,59,120,13,10,97,13,10,57,13,10,49,50,51,52,53,54,55,56,57,13,10,48,13,10,13,10>>

\* HTTP/1.1 301 Moved\r\nLocation: /y\r\n\r\n
RESP_301 ==
  <<72,84,84,80,47,49,46,49,32,51,48,49,32,77,111,118,101,100,13,10,76,111,99,97,116,105,111,110,58,32,47,121,13,10,13,10>>

\* HTTP/1.1 303 See Other\r\nContent-Length: 1\r\nLocation: http://b/y\r\n\r\n.
RESP_303 ==
  <<72,84,84,80,47,49,46,49,32,51,48,51,32,83,101,101,32,79,116,104,101,114,13,10,67,111,110,116,101,110,116,45,76,101,110,103,116,104,58,32,49,13,10,76,111,99,97,116,105,111,110,58,32,104,116,116,112,58,47,47,98,47,121,13,10,13,10,46>>

\* HTTP/1.1 307 Temporary\r\nlocation: x\r\n\r\n
RESP_307 ==
  <<72,84,84,80,47,49,46,49,32,51,48,55,32,84,101,109,112,111,114,97,114,121,13,10,108,111,99,97,116,105,111,110,58,32,120,13,10,13,10>>

\* HTTP/1.1 302 Found\r\nContent-Length: 2\r\n\r\nhi
RESP_302_noloc ==
  <<72,84,84,80,47,49,46,49,32,51,48,50,32,70,111,117,110,100,13,10,67,111,110,116,101,110,116,45,76,101,110,103,116,104,58,32,50,13,10,13,10,104,105>>

\* HTTP/1.1 300 Multiple\r\nLocation: /y\r\nContent-Length: 0\r\n\r\n
RESP_300 ==
  <<72,84,84,80,47,49,46,49,32,51,48,48,32,77,117,108,116,105,112,108,101,13,10,76,111,99,97,116,105,111,110,58,32,47,121,13,10,67,111,110,116,101,110,116,45,76,101,110,103,116,104,58,32,48,13,10,13,10>>

Responses ==
  { RESP_cl5, RESP_chunked, RESP_close, RESP_cl0, RESP_both, RESP_Chunked,
    RESP_CHUNKED, RESP_gzip, RESP_206, RESP_206_chunked, RESP_ext,
    RESP_301, RESP_303, RESP_307, RESP_302_noloc, RESP_300 }

\* what the peer answers on the connections after the first RichHops ones
LateResponses == { RESP_cl5, RESP_301, RESP_303, RESP_307 }

\* the file at output_path does not exist
NoFile == <<-1>>

\* what the submitted request asks for; output_path = <<>> is "no output file"
Descriptors ==
  { [url |-> URL_A, method |-> STR_GET, body |-> <<>>, headers |-> <<>>,
     output_path |-> <<>>, output_override |-> FALSE, file |-> NoFile],
    [url |-> URL_A, method |-> STR_POST, body |-> BODY_ab,
     headers |-> <<[name |-> HDR_name, value |-> HDR_value]>>,
     output_path |-> <<>>, output_override |-> FALSE, file |-> NoFile],
    [url |-> URL_A, method |-> STR_GET, body |-> <<>>, headers |-> <<>>,
     output_path |-> PATH_f, output_override |-> FALSE, file |-> NoFile],
    [url |-> URL_A, method |-> STR_GET, body |-> <<>>, headers |-> <<>>,
     output_path |-> PATH_f, output_override |-> FALSE, file |-> FILE_xy],
    [url |-> URL_A, method |-> STR_GET, body |-> <<>>, headers |-> <<>>,
     output_path |-> PATH_f, output_override |-> FALSE, file |-> FILE_xyz],
    [url |-> URL_A, method |-> STR_POST, body |-> BODY_ab, headers |-> <<>>,
     output_path |-> PATH_f, output_override |-> TRUE, file |-> FILE_xy],
    [url |-> URL_S, method |-> STR_GET, body |-> <<>>, headers |-> <<>>,
     output_path |-> <<>>, output_override |-> FALSE, file |-> NoFile],
    [url |-> URL_BAD, method |-> STR_GET, body |-> <<>>, headers |-> <<>>,
     output_path |-> <<>>, output_override |-> FALSE, file |-> NoFile],
    [url |-> URL_P, method |-> STR_GET, body |-> <<>>, headers |-> <<>>,
     output_path |-> <<>>, output_override |-> FALSE, file |-> NoFile],
    [url |-> URL_P7, method |-> STR_GET, body |-> <<>>, headers |-> <<>>,
     output_path |-> <<>>, output_override |-> FALSE, file |-> NoFile] }

\* bounds of the environment
MaxShortRead == 1
MaxShortWrite == 1
MaxJoins == 2
RichHops == 2

\* a recv / SSL_read asked for `want` bytes with `avail` bytes on the way
\* returns all it can or a short count
ReadSizes(want, avail) ==
  {Min(want, avail)} \cup (1..Min(MaxShortRead, Min(want, avail)))

\* a send / SSL_write of `len` bytes accepts all of them or falls short by a
\* few bytes
WriteSizes(len) == {len} \cup {len - k : k \in 1..Min(MaxShortWrite, len - 1)}

\* ------------------------------------------------------------------------
\* State
\* ------------------------------------------------------------------------
VARIABLES
  req,         \* the HttpRequest shared by worker and consumer
  w,           \* the locals of _http_worker; w.pc is its position
  net,         \* bytes the peer still delivers on the open connection
  wire,        \* bytes the worker handed to the open connection
  file,        \* content of the file at output_path, or NoFile
  tls_loaded,  \* the process-wide flag of _tls_init
  lua,         \* the consumer: the userdata pointer and the call in progress
  hist,        \* history of the run, read by the properties only
  th,          \* concurrent callers of the process-wide initialisers
  ev           \* a function of the source applied to one input

\* what a run of one request leaves alone
aux_vars == <<th, ev>>

vars == <<req, w, net, wire, file, tls_loaded, lua, hist, th, ev>>

\* the value returned for a Lua nil
NIL == <<-2>>

\* what the last method call on the userdata returned: `call` names the
\* method, `flag` is the boolean of done(), the rest the four values of result()
NoReturn == [call |-> "none", flag |-> FALSE, body |-> NIL, status |-> 0,
             headers |-> {}, err |-> NIL]

wLocals0 ==
  [pc |-> "start", out_file |-> "null", resume_offset |-> 0,
   current_url |-> <<>>, redirect_count |-> 0, url |-> NoUrl, conn |-> "none",
   sendbuf |-> <<>>, sent |-> 0, content_length |-> -1, chunked |-> FALSE,
   location |-> <<>>, remaining |-> 0, is_tls |-> FALSE, ssl |-> FALSE]

\* spry_http_request: the request is allocated zeroed, filled in, its state
\* stored as running and its worker thread started
RequestInit(d) ==
    /\ req = [url |-> d.url, method |-> d.method, body |-> d.body,
              headers |-> d.headers, output_path |-> d.output_path,
              output_override |-> d.output_override,
              response_body |-> <<>>, status_code |-> 0,
              response_headers_raw |-> <<>>, error |-> <<>>,
              bytes_uploaded |-> 0, bytes_downloaded |-> 0,
              content_length |-> 0, state |-> 0]
    /\ w = wLocals0
    /\ net = <<>>
    /\ wire = <<>>
    /\ file = d.file
    /\ tls_loaded = FALSE
    /\ lua = [ptr |-> TRUE, pc |-> "idle", st |-> 0, ret |-> NoReturn, joins |-> 0]
    /\ hist = [cycles |-> 0, conns |-> 0, hops |-> 0, mode |-> "none",
               delivered |-> <<>>, base |-> <<>>, announced |-> 0,
               payload |-> <<>>, rd_fail |-> FALSE,
               file0 |-> d.file, opens |-> 0, attempts |-> 0]

\* no concurrent initialisation, no function under evaluation
NoThreads == [pc |-> <<>>]

NoEval == [fn |-> "none"]

Init == (\E d \in Descriptors : RequestInit(d)) /\ th = NoThreads /\ ev = NoEval

\* ------------------------------------------------------------------------
\* _http_worker
\* ------------------------------------------------------------------------
\* _conn_close + fclose of the failure and success paths
\* a faulty variant: the connection is left as it is
CloseConn_leak(l) == l

\* lines 910-943: _conn_close
CloseConn(l) == [l EXCEPT !.conn = "closed", !.ssl = FALSE]

\* a faulty variant of the dispatch: the socket is used whatever the flags
_conn_path_plain(c) == "plain"

\* lines 884-908: what _conn_write and _conn_read hand the bytes to; ssl
\* stands for the established session (conn->ssl, conn->ctx_handle)
_conn_path(c) == IF c.is_tls /\ c.ssl THEN "tls" ELSE "plain"

CloseFile(l) == [l EXCEPT !.out_file = IF l.out_file = "open" THEN "closed" ELSE l.out_file]

\* snprintf(req->error, ...); req->state.store(2, release)
StoreError(r, msg) == [r EXCEPT !.error = snprintf_error(msg), !.state = 2]

\* a faulty variant: the output file is created or truncated before the
\* request is made
WorkerStart_open ==
  /\ w.pc = "start"
  /\ req' = [req EXCEPT !.response_body = <<>>, !.response_headers_raw = <<>>,
                        !.status_code = 0, !.error = <<>>,
                        !.bytes_uploaded = 0, !.bytes_downloaded = 0,
                        !.content_length = -1]
  /\ w' = [w EXCEPT !.pc = "loop",
                    !.resume_offset =
                       IF req.output_path # <<>> /\ ~req.output_override /\ file # NoFile
                       THEN Len(file) ELSE 0,
                    !.current_url = req.url,
                    !.redirect_count = 0]
  /\ file' = IF req.output_path # <<>> THEN <<>> ELSE file
  /\ UNCHANGED <<net, wire, tls_loaded, lua, hist, aux_vars>>

\* lines 1092-1128, strdup succeeds
WorkerStart ==
  /\ w.pc = "start"
  /\ req' = [req EXCEPT !.response_body = <<>>, !.response_headers_raw = <<>>,
                        !.status_code = 0, !.error = <<>>,
                        !.bytes_uploaded = 0, !.bytes_downloaded = 0,
                        !.content_length = -1]
  /\ w' = [w EXCEPT !.pc = "loop",
                    !.resume_offset =
                       IF req.output_path # <<>> /\ ~req.output_override /\ file # NoFile
                       THEN Len(file) ELSE 0,
                    !.current_url = req.url,
                    !.redirect_count = 0]
  /\ UNCHANGED <<net, wire, file, tls_loaded, lua, hist, aux_vars>>

\* lines 1092-1128, strdup returns null
WorkerStartOom ==
  /\ w.pc = "start"
  /\ req' = StoreError([req EXCEPT !.response_body = <<>>, !.response_headers_raw = <<>>,
                                   !.status_code = 0,
                                   !.bytes_uploaded = 0, !.bytes_downloaded = 0,
                                   !.content_length = -1], MSG_oom)
  /\ w' = [w EXCEPT !.pc = "ret"]
  /\ UNCHANGED <<net, wire, file, tls_loaded, lua, hist, aux_vars>>

\* faulty variants of the loop condition: one iteration fewer, one more
redirect_loop_cond_lt(redirect_count) == redirect_count < MAX_REDIRECTS

redirect_loop_cond_plus(redirect_count) == redirect_count <= MAX_REDIRECTS + 1

\* the condition of the redirect loop, line 1132
redirect_loop_cond(redirect_count) == redirect_count <= MAX_REDIRECTS

\* lines 1132-1140: next iteration, parse the current URL
ParseUrl ==
  /\ w.pc = "loop"
  /\ redirect_loop_cond(w.redirect_count)
  /\ LET u == _url_parse(w.current_url)
     IN  IF u.ok
         THEN /\ w' = [w EXCEPT !.url = u, !.pc = IF u.https THEN "tls" ELSE "connect"]
              /\ req' = req
         ELSE /\ req' = StoreError(req, MSG_invalid_url \o w.current_url)
              /\ w' = [w EXCEPT !.pc = "ret"]
  /\ hist' = [hist EXCEPT !.cycles = @ + 1]
  /\ UNCHANGED <<net, wire, file, tls_loaded, lua, aux_vars>>

\* lines 1524-1527: the loop ran out
TooManyRedirects ==
  /\ w.pc = "loop"
  /\ ~redirect_loop_cond(w.redirect_count)
  /\ req' = StoreError(req, MSG_too_many \o FormatDec(MAX_REDIRECTS) \o MSG_rparen)
  /\ w' = [w EXCEPT !.pc = "ret"]
  /\ UNCHANGED <<net, wire, file, tls_loaded, lua, hist, aux_vars>>

\* line 1143 with _tls_init (lines 176-259) succeeding
TlsInitOk ==
  /\ w.pc = "tls"
  /\ tls_loaded' = TRUE
  /\ w' = [w EXCEPT !.pc = "connect"]
  /\ UNCHANGED <<req, net, wire, file, lua, hist, aux_vars>>

\* faulty variant: the failure of _tls_init is ignored
TlsInitFail_connects ==
  /\ w.pc = "tls"
  /\ ~tls_loaded
  /\ w' = [w EXCEPT !.pc = "connect"]
  /\ UNCHANGED <<req, net, wire, file, tls_loaded, lua, hist, aux_vars>>

\* lines 1143-1147 with _tls_init failing: it leaves its message in req->error
TlsInitFail ==
  /\ w.pc = "tls"
  /\ ~tls_loaded
  /\ \E msg \in {MSG_tls_crypto, MSG_tls_ssl, MSG_tls_syms} :
       req' = StoreError(req, msg)
  /\ w' = [w EXCEPT !.pc = "ret"]
  /\ UNCHANGED <<net, wire, file, tls_loaded, lua, hist, aux_vars>>

\* the messages _conn_connect can leave on failure; <<>> is the handshake
\* failure that writes none (SSL_get_error unresolved)
ConnectErrors(url) ==
  { MSG_getaddrinfo \o url.host \o <<COLON>> \o url.port \o MSG_failed_colon,
    MSG_connect \o url.host \o <<COLON>> \o url.port \o MSG_failed_colon }
  \cup (IF url.https
        THEN {MSG_tls_ctx, MSG_tls_session, MSG_tls_handshake, <<>>}
        ELSE {})

\* lines 1158-1167 with _conn_connect (lines 365-488) succeeding; the peer
\* decides what it will answer on this connection
ConnectOk ==
  /\ w.pc = "connect"
  /\ req' = [req EXCEPT !.error = <<>>]
  /\ w' = [w EXCEPT !.conn = "open", !.pc = "build",
                    !.is_tls = w.url.https, !.ssl = w.url.https]
  /\ net' \in (IF hist.conns < RichHops THEN Responses ELSE LateResponses)
  /\ wire' = <<>>
  /\ hist' = [hist EXCEPT !.conns = @ + 1, !.attempts = @ + 1]
  /\ UNCHANGED <<file, tls_loaded, lua, aux_vars>>

\* a faulty variant: the message _conn_connect left is stored as it is
ConnectFail_rawmsg ==
  /\ w.pc = "connect"
  /\ \E msg \in ConnectErrors(w.url) :
       req' = StoreError(req, msg)
  /\ w' = [w EXCEPT !.pc = "ret", !.is_tls = w.url.https, !.ssl = FALSE]
  /\ hist' = [hist EXCEPT !.attempts = @ + 1]
  /\ UNCHANGED <<net, wire, file, tls_loaded, lua, aux_vars>>

\* lines 1158-1167 with _conn_connect failing
ConnectFail ==
  /\ w.pc = "connect"
  /\ \E msg \in ConnectErrors(w.url) :
       req' = StoreError(req,
                IF msg = <<>>
                THEN MSG_connection_to \o w.url.host \o <<COLON>> \o w.url.port \o MSG_failed
                ELSE msg)
  /\ w' = [w EXCEPT !.pc = "ret", !.is_tls = w.url.https, !.ssl = FALSE]
  /\ hist' = [hist EXCEPT !.attempts = @ + 1]
  /\ UNCHANGED <<net, wire, file, tls_loaded, lua, aux_vars>>

RECURSIVE header_lines(_)
header_lines(hs) ==
  IF hs = <<>> THEN <<>>
  ELSE Head(hs).name \o STR_colon_sp \o Head(hs).value \o STR_CRLF \o header_lines(Tail(hs))

\* faulty variant: the user headers are written before Connection: close
build_request_headers_first(method, url, headers, resume_offset, body) ==
  method \o <<SP>> \o url.path \o STR_http11
  \o STR_host_hdr \o url.host \o STR_CRLF
  \o STR_user_agent
  \o header_lines(headers)
  \o STR_conn_close
  \o (IF resume_offset > 0 THEN STR_range \o FormatDec(resume_offset) \o STR_dash_crlf ELSE <<>>)
  \o (IF Len(body) > 0 THEN STR_cl_hdr \o FormatDec(Len(body)) \o STR_CRLF ELSE <<>>)
  \o STR_CRLF
  \o (IF Len(body) > 0 THEN body ELSE <<>>)

\* lines 1169-1219: the bytes of the request
build_request(method, url, headers, resume_offset, body) ==
  method \o <<SP>> \o url.path \o STR_http11
  \o STR_host_hdr \o url.host \o STR_CRLF
  \o STR_user_agent
  \o STR_conn_close
  \o header_lines(headers)
  \o (IF resume_offset > 0 THEN STR_range \o FormatDec(resume_offset) \o STR_dash_crlf ELSE <<>>)
  \o (IF Len(body) > 0 THEN STR_cl_hdr \o FormatDec(Len(body)) \o STR_CRLF ELSE <<>>)
  \o STR_CRLF
  \o (IF Len(body) > 0 THEN body ELSE <<>>)

BuildRequest ==
  /\ w.pc = "build"
  /\ w' = [w EXCEPT !.sendbuf = build_request(req.method, w.url, req.headers,
                                              w.resume_offset, req.body),
                    !.sent = 0, !.pc = "send"]
  /\ UNCHANGED <<req, net, wire, file, tls_loaded, lua, hist, aux_vars>>

\* _send_all, lines 1021-1032: one _conn_write that accepts n > 0 bytes
SendStep ==
  /\ w.pc = "send"
  /\ \E n \in WriteSizes(Len(w.sendbuf) - w.sent) :
       /\ wire' = wire \o SubSeq(w.sendbuf, w.sent + 1, w.sent + n)
       /\ req' = [req EXCEPT !.bytes_uploaded = @ + n]
       /\ w' = IF w.sent + n < Len(w.sendbuf)
               THEN [w EXCEPT !.sent = @ + n]
               ELSE [w EXCEPT !.sent = @ + n, !.sendbuf = <<>>, !.pc = "status"]
  /\ UNCHANGED <<net, file, tls_loaded, lua, hist, aux_vars>>

\* lines 1221-1229: a _conn_write returned <= 0
SendFail ==
  /\ w.pc = "send"
  /\ req' = StoreError(req, MSG_send)
  /\ w' = [CloseFile(CloseConn(w)) EXCEPT !.sendbuf = <<>>, !.pc = "ret"]
  /\ net' = <<>>
  /\ UNCHANGED <<wire, file, tls_loaded, lua, hist, aux_vars>>

RECURSIVE SkipNonSpace(_)
SkipNonSpace(s) == IF s # <<>> /\ Head(s) # SP THEN SkipNonSpace(Tail(s)) ELSE s

\* lines 1248-1254
parse_status(line) == strtol(SkipWhile(SkipNonSpace(line), SP))

\* lines 1237-1259: the status line arrives
ReadStatus ==
  /\ w.pc = "status"
  /\ LET r == _read_line(net)
     IN  /\ r.ok
         /\ net' = r.rest
         /\ req' = [req EXCEPT !.status_code = parse_status(r.line)]
  /\ w' = [w EXCEPT !.content_length = -1, !.chunked = FALSE, !.location = <<>>,
                    !.pc = "headers"]
  /\ UNCHANGED <<wire, file, tls_loaded, lua, hist, aux_vars>>

\* lines 1237-1245: the connection ends or fails before the line is complete
ReadStatusFail ==
  /\ w.pc = "status"
  /\ net' = <<>>
  /\ req' = StoreError(req, MSG_status)
  /\ w' = [CloseFile(CloseConn(w)) EXCEPT !.pc = "ret"]
  /\ hist' = [hist EXCEPT !.rd_fail = TRUE]
  /\ UNCHANGED <<wire, file, tls_loaded, lua, aux_vars>>

\* lines 1278-1307: what one header line changes
header_name_is(line, name_len, name) ==
  name_len = Len(name) /\ ci_eq(line, name, Len(name))

header_value(line) == SkipWhile(Drop(line, strchr(line, COLON)), SP)

value_is_chunked(val) == strstr(val, STR_chunked) \/ strstr(val, STR_Chunked)

\* lines 1261-1308: one header line arrives
ReadHeader ==
  /\ w.pc = "headers"
  /\ LET r == _read_line(net)
         colon == strchr(r.line, COLON)
         val == header_value(r.line)
         is_cl == colon # 0 /\ header_name_is(r.line, colon - 1, STR_content_length)
         is_te == colon # 0 /\ header_name_is(r.line, colon - 1, STR_transfer_encoding)
         is_loc == colon # 0 /\ header_name_is(r.line, colon - 1, STR_location)
     IN  /\ r.ok
         /\ net' = r.rest
         /\ IF r.line = <<>>
            THEN /\ w' = [w EXCEPT !.pc = "after_headers"]
                 /\ req' = req
            ELSE /\ req' = [req EXCEPT !.response_headers_raw = @ \o r.line \o <<LF>>,
                                       !.content_length = IF is_cl THEN strtol(val) ELSE @]
                 /\ w' = [w EXCEPT !.content_length = IF is_cl THEN strtol(val) ELSE @,
                                   !.chunked = IF is_te /\ value_is_chunked(val) THEN TRUE ELSE @,
                                   !.location = IF is_loc THEN Take(val, LOCATION_SIZE - 1) ELSE @]
  /\ UNCHANGED <<wire, file, tls_loaded, lua, hist, aux_vars>>

\* lines 1262-1270
ReadHeaderFail ==
  /\ w.pc = "headers"
  /\ net' = <<>>
  /\ req' = StoreError(req, MSG_headers)
  /\ w' = [CloseFile(CloseConn(w)) EXCEPT !.pc = "ret"]
  /\ hist' = [hist EXCEPT !.rd_fail = TRUE]
  /\ UNCHANGED <<wire, file, tls_loaded, lua, aux_vars>>

\* faulty variant: every status from 300 to 308 counts as a redirect
is_redirect_3xx(status_code, location) ==
  /\ status_code >= 300 /\ status_code <= 308
  /\ location # <<>>

\* lines 1312-1314
is_redirect(status_code, location) ==
  /\ (status_code >= 301 /\ status_code <= 303) \/ status_code = 307 \/ status_code = 308
  /\ location # <<>>

\* lines 1320-1338
redirect_url(url, location) ==
  IF Head(location) = SLASH
  THEN LET scheme == IF url.https THEN STR_https ELSE STR_http
           nondefault == (url.https /\ url.port # STR_443) \/ (~url.https /\ url.port # STR_80)
           needed == Len(scheme) + Len(url.host) + Len(location) + 8
       IN  Take(scheme \o url.host
                \o (IF nondefault THEN <<COLON>> ELSE <<>>)
                \o (IF nondefault THEN url.port ELSE <<>>)
                \o location, needed - 1)
  ELSE location

\* faulty variant: the redirect is followed with the headers and the total of
\* the redirect response left in place
FollowRedirect_noreset ==
  /\ w.pc = "after_headers"
  /\ is_redirect(req.status_code, w.location)
  /\ w' = [CloseConn(w) EXCEPT !.current_url = redirect_url(w.url, w.location),
                               !.redirect_count = @ + 1,
                               !.pc = "loop"]
  /\ req' = [req EXCEPT !.method = IF req.status_code = 303 THEN STR_GET ELSE @]
  /\ net' = <<>>
  /\ hist' = [hist EXCEPT !.hops = @ + 1]
  /\ UNCHANGED <<wire, file, tls_loaded, lua, aux_vars>>

\* lines 1311-1364: the redirect is followed, `continue` increments the count
FollowRedirect ==
  /\ w.pc = "after_headers"
  /\ is_redirect(req.status_code, w.location)
  /\ w' = [CloseConn(w) EXCEPT !.current_url = redirect_url(w.url, w.location),
                               !.redirect_count = @ + 1,
                               !.pc = "loop"]
  /\ req' = [req EXCEPT !.response_headers_raw = <<>>, !.response_body = <<>>,
                        !.content_length = -1,
                        !.method = IF req.status_code = 303 THEN STR_GET ELSE @]
  /\ net' = <<>>
  /\ hist' = [hist EXCEPT !.hops = @ + 1]
  /\ UNCHANGED <<wire, file, tls_loaded, lua, aux_vars>>

\* lines 1340-1345: malloc / strdup of the new URL returned null
RedirectOom ==
  /\ w.pc = "after_headers"
  /\ is_redirect(req.status_code, w.location)
  /\ w' = [CloseConn(w) EXCEPT !.pc = "ret"]
  /\ req' = StoreError(req, MSG_oom_redirect)
  /\ net' = <<>>
  /\ UNCHANGED <<wire, file, tls_loaded, lua, hist, aux_vars>>

\* the condition of line 1369 once no redirect is followed
wants_file == w.out_file = "null" /\ req.output_path # <<>>

\* faulty variant: the status of the response is not looked at
resumes_any_status == w.resume_offset > 0

\* line 1370
resumes == w.resume_offset > 0 /\ req.status_code = 206

\* line 1369 false: the body stays in memory
NoOutputFile ==
  /\ w.pc = "after_headers"
  /\ ~is_redirect(req.status_code, w.location)
  /\ ~wants_file
  /\ w' = [w EXCEPT !.pc = "body"]
  /\ UNCHANGED <<req, net, wire, file, tls_loaded, lua, hist, aux_vars>>

\* lines 1370-1375: 206 on a resume, fopen(path, "ab") succeeds
OpenAppend ==
  /\ w.pc = "after_headers"
  /\ ~is_redirect(req.status_code, w.location)
  /\ wants_file /\ resumes
  /\ file' = IF file = NoFile THEN <<>> ELSE file
  /\ req' = [req EXCEPT !.bytes_downloaded = w.resume_offset]
  /\ w' = [w EXCEPT !.out_file = "open",
                    !.pc = IF w.content_length >= 0 THEN "adjust_total" ELSE "body"]
  /\ hist' = [hist EXCEPT !.base = file', !.opens = @ + 1]
  /\ UNCHANGED <<net, wire, tls_loaded, lua, aux_vars>>

\* lines 1377-1380
AdjustTotal ==
  /\ w.pc = "adjust_total"
  /\ req' = [req EXCEPT !.content_length = w.content_length + w.resume_offset]
  /\ w' = [w EXCEPT !.pc = "body"]
  /\ UNCHANGED <<net, wire, file, tls_loaded, lua, hist, aux_vars>>

\* lines 1383-1390: fopen(path, "wb") succeeds
OpenTruncate ==
  /\ w.pc = "after_headers"
  /\ ~is_redirect(req.status_code, w.location)
  /\ wants_file /\ ~resumes
  /\ file' = <<>>
  /\ w' = [w EXCEPT !.out_file = "open", !.resume_offset = 0, !.pc = "body"]
  /\ hist' = [hist EXCEPT !.opens = @ + 1]
  /\ UNCHANGED <<req, net, wire, tls_loaded, lua, aux_vars>>

\* faulty variant: the failure is stored but the `return` is missing
OpenFail_noreturn ==
  /\ w.pc = "after_headers"
  /\ ~is_redirect(req.status_code, w.location)
  /\ wants_file
  /\ req' = StoreError(req, MSG_open \o req.output_path)
  /\ w' = [w EXCEPT !.pc = "body"]
  /\ UNCHANGED <<net, wire, file, tls_loaded, lua, hist, aux_vars>>

\* lines 1391-1398: fopen returned null
OpenFail ==
  /\ w.pc = "after_headers"
  /\ ~is_redirect(req.status_code, w.location)
  /\ wants_file
  /\ req' = StoreError(req, MSG_open \o req.output_path)
  /\ w' = [CloseConn(w) EXCEPT !.resume_offset = IF resumes THEN @ ELSE 0,
                               !.pc = "ret"]
  /\ net' = <<>>
  /\ UNCHANGED <<wire, file, tls_loaded, lua, hist, aux_vars>>

\* faulty variant: Content-Length is looked at before the chunked flag
SelectFraming_length_first ==
  /\ w.pc = "body"
  /\ IF w.content_length >= 0
     THEN /\ w' = [w EXCEPT !.remaining = w.content_length,
                            !.pc = IF w.content_length > 0 THEN "length_body" ELSE "finish"]
          /\ hist' = [hist EXCEPT !.mode = "length"]
     ELSE IF w.chunked
     THEN /\ w' = [w EXCEPT !.pc = "chunk_line"]
          /\ hist' = [hist EXCEPT !.mode = "chunked"]
     ELSE /\ w' = [w EXCEPT !.pc = "close_body"]
          /\ hist' = [hist EXCEPT !.mode = "close"]
  /\ UNCHANGED <<req, net, wire, file, tls_loaded, lua, aux_vars>>

\* lines 1402, 1452, 1489: which of the three body loops runs
SelectFraming ==
  /\ w.pc = "body"
  /\ IF w.chunked
     THEN /\ w' = [w EXCEPT !.pc = "chunk_line"]
          /\ hist' = [hist EXCEPT !.mode = "chunked"]
     ELSE IF w.content_length >= 0
     THEN /\ w' = [w EXCEPT !.remaining = w.content_length,
                            !.pc = IF w.content_length > 0 THEN "length_body" ELSE "finish"]
          /\ hist' = [hist EXCEPT !.mode = "length"]
     ELSE /\ w' = [w EXCEPT !.pc = "close_body"]
          /\ hist' = [hist EXCEPT !.mode = "close"]
  /\ UNCHANGED <<req, net, wire, file, tls_loaded, lua, aux_vars>>

\* the size a chunk-size line announces: its leading hexadecimal digits
IsHex(c) == (c >= 48 /\ c <= 57) \/ (c >= 97 /\ c <= 102) \/ (c >= 65 /\ c <= 70)

HexDigit(c) == IF c <= 57 THEN c - 48 ELSE IF c >= 97 THEN c - 87 ELSE c - 55

RECURSIVE LeadingHexValue(_, _)
LeadingHexValue(s, acc) ==
  IF s # <<>> /\ IsHex(Head(s)) THEN LeadingHexValue(Tail(s), acc * 16 + HexDigit(Head(s)))
  ELSE acc

\* lines 1405-1411: a chunk-size line arrives; after a zero size one more
\* line is read and its outcome ignored
ChunkLine ==
  /\ w.pc = "chunk_line"
  /\ LET r == _read_line(net)
         chunk_size == _hex_to_u64(r.line)
         t == _read_line(r.rest)
     IN  /\ r.ok
         /\ IF chunk_size = 0
            THEN /\ net' \in {IF t.ok THEN t.rest ELSE <<>>, <<>>}
                 /\ w' = [w EXCEPT !.pc = "finish"]
            ELSE /\ net' = r.rest
                 /\ w' = [w EXCEPT !.remaining = chunk_size, !.pc = "chunk_data"]
         /\ hist' = [hist EXCEPT
                       !.announced = @ + LeadingHexValue(r.line, 0),
                       !.payload = @ \o Take(r.rest, LeadingHexValue(r.line, 0))]
  /\ UNCHANGED <<req, wire, file, tls_loaded, lua, aux_vars>>

\* line 1405: the connection ends or fails before a chunk-size line is
\* complete; the loop is left with `break`
ChunkLineEof ==
  /\ w.pc = "chunk_line"
  /\ net' = <<>>
  /\ w' = [w EXCEPT !.pc = "finish"]
  /\ hist' = [hist EXCEPT !.rd_fail = TRUE]
  /\ UNCHANGED <<req, wire, file, tls_loaded, lua, aux_vars>>

\* faulty variant: the file loops forget to count the bytes they wrote
ReadBody_nocount(max_chunk, next_pc) ==
  /\ net # <<>>
  /\ \E n \in ReadSizes(Min(w.remaining, max_chunk), Len(net)) :
       /\ net' = Drop(net, n)
       /\ IF w.out_file = "open"
          THEN /\ file' = file \o Take(net, n)
               /\ req' = req
          ELSE /\ file' = file
               /\ req' = [req EXCEPT !.response_body = @ \o Take(net, n),
                                     !.bytes_downloaded = @ + n]
       /\ w' = [w EXCEPT !.remaining = @ - n,
                         !.pc = IF w.remaining - n = 0 THEN next_pc ELSE @]
       /\ hist' = [hist EXCEPT !.delivered = @ \o Take(net, n)]
  /\ UNCHANGED <<wire, tls_loaded, lua, aux_vars>>

\* one successful _conn_read of body bytes and their fwrite or append:
\* lines 1415-1438 and 1456-1479 (file), _read_exact lines 1056-1070 (memory)
ReadBody(max_chunk, next_pc) ==
  /\ net # <<>>
  /\ \E n \in ReadSizes(Min(w.remaining, max_chunk), Len(net)) :
       /\ net' = Drop(net, n)
       /\ IF w.out_file = "open"
          THEN /\ file' = file \o Take(net, n)
               /\ req' = [req EXCEPT !.bytes_downloaded = @ + n]
          ELSE /\ file' = file
               /\ req' = [req EXCEPT !.response_body = @ \o Take(net, n),
                                     !.bytes_downloaded = @ + n]
       /\ w' = [w EXCEPT !.remaining = @ - n,
                         !.pc = IF w.remaining - n = 0 THEN next_pc ELSE @]
       /\ hist' = [hist EXCEPT !.delivered = @ \o Take(net, n)]
  /\ UNCHANGED <<wire, tls_loaded, lua, aux_vars>>

body_chunk_max == IF w.out_file = "open" THEN FILE_BUF_SIZE ELSE READ_EXACT_MAX

\* lines 1412-1448: bytes of the current chunk arrive
ChunkData ==
  /\ w.pc = "chunk_data"
  /\ ReadBody(body_chunk_max, "chunk_crlf")

\* lines 1418-1426 and 1439-1448: the read of chunk bytes returned <= 0
ChunkDataFail ==
  /\ w.pc = "chunk_data"
  /\ net' = <<>>
  /\ req' = StoreError(req, MSG_chunked)
  /\ w' = [CloseFile(CloseConn(w)) EXCEPT !.pc = "ret"]
  /\ hist' = [hist EXCEPT !.rd_fail = TRUE]
  /\ UNCHANGED <<wire, file, tls_loaded, lua, aux_vars>>

\* line 1450: the line after the chunk bytes is read, its outcome ignored
ChunkCrlf ==
  /\ w.pc = "chunk_crlf"
  /\ LET r == _read_line(net)
     IN  net' \in {IF r.ok THEN r.rest ELSE <<>>, <<>>}
  /\ w' = [w EXCEPT !.pc = "chunk_line"]
  /\ UNCHANGED <<req, wire, file, tls_loaded, lua, hist, aux_vars>>

\* lines 1453-1488: bytes of a content-length body arrive
LengthData ==
  /\ w.pc = "length_body"
  /\ ReadBody(body_chunk_max, "finish")

\* lines 1459-1467 and 1480-1488
LengthDataFail ==
  /\ w.pc = "length_body"
  /\ net' = <<>>
  /\ req' = StoreError(req, MSG_body)
  /\ w' = [CloseFile(CloseConn(w)) EXCEPT !.pc = "ret"]
  /\ hist' = [hist EXCEPT !.rd_fail = TRUE]
  /\ UNCHANGED <<wire, file, tls_loaded, lua, aux_vars>>

\* lines 1492-1509: bytes of a read-to-close body arrive
CloseData ==
  /\ w.pc = "close_body"
  /\ net # <<>>
  /\ \E n \in ReadSizes(FILE_BUF_SIZE, Len(net)) :
       /\ net' = Drop(net, n)
       /\ IF w.out_file = "open"
          THEN /\ file' = file \o Take(net, n)
               /\ req' = [req EXCEPT !.bytes_downloaded = @ + n]
          ELSE /\ file' = file
               /\ req' = [req EXCEPT !.response_body = @ \o Take(net, n),
                                     !.bytes_downloaded = @ + n]
       /\ hist' = [hist EXCEPT !.delivered = @ \o Take(net, n)]
  /\ UNCHANGED <<w, wire, tls_loaded, lua, aux_vars>>

\* faulty variant: a read that returns <= 0 is tried again
CloseEnd_retry ==
  /\ w.pc = "close_body"
  /\ UNCHANGED vars

\* lines 1493-1494: the read returned <= 0, the body is complete
CloseEnd ==
  /\ w.pc = "close_body"
  /\ net' = <<>>
  /\ w' = [w EXCEPT !.pc = "finish"]
  /\ UNCHANGED <<req, wire, file, tls_loaded, lua, hist, aux_vars>>

\* lines 1427-1435, 1468-1476, 1496-1504: n bytes were read but fwrite
\* wrote only k < n of them
WriteFail ==
  /\ w.pc \in {"chunk_data", "length_body", "close_body"}
  /\ w.out_file = "open"
  /\ net # <<>>
  /\ \E n \in ReadSizes(IF w.pc = "close_body" THEN FILE_BUF_SIZE
                        ELSE Min(w.remaining, FILE_BUF_SIZE), Len(net)) :
       \E k \in 0..(n - 1) :
         /\ net' = <<>>
         /\ file' = file \o Take(net, k)
  /\ req' = StoreError(req, MSG_write)
  /\ w' = [CloseFile(CloseConn(w)) EXCEPT !.pc = "ret"]
  /\ UNCHANGED <<wire, tls_loaded, lua, hist, aux_vars>>

\* lines 1511-1519: success
Finish ==
  /\ w.pc = "finish"
  /\ w' = [CloseFile(CloseConn(w)) EXCEPT !.pc = "ret"]
  /\ req' = [req EXCEPT !.state = 1]
  /\ net' = <<>>
  /\ UNCHANGED <<wire, file, tls_loaded, lua, hist, aux_vars>>

\* faulty variant: the worker trashes the response body on its way out
WorkerReturn_trash ==
  /\ w.pc = "ret"
  /\ w' = [wLocals0 EXCEPT !.pc = "exited"]
  /\ req' = [req EXCEPT !.response_body = <<>>]
  /\ UNCHANGED <<net, wire, file, tls_loaded, lua, hist, aux_vars>>

\* the `return` after the state store (and, on line 1396, the free of the
\* worker's own URL copy): the thread function ends, its locals are gone
WorkerReturn ==
  /\ w.pc = "ret"
  /\ w' = [wLocals0 EXCEPT !.pc = "exited"]
  /\ UNCHANGED <<req, net, wire, file, tls_loaded, lua, hist, aux_vars>>

\* ------------------------------------------------------------------------
\* The consumer: methods of the request userdata
\* ------------------------------------------------------------------------
\* Thread::join (sync.h) returns once the thread function has returned
thread_join_returns == w.pc = "exited"

\* _push_headers_table, lines 1580-1616: the Lua table as a set of
\* <<name, value>> pairs, a later lua_settable replacing an earlier one
RECURSIVE push_headers_loop(_, _)
push_headers_loop(p, tbl) ==
  IF p = <<>> THEN tbl
  ELSE LET nl == strchr(p, LF)
           line_end == IF nl # 0 THEN nl ELSE Len(p) + 1
           colon == strchr(p, COLON)
           copy_len == Min(colon - 1, 255)
           name == [i \in 1..copy_len |-> ToLower(p[i])]
           val == SkipWhile(SubSeq(p, colon + 1, line_end - 1), SP)
           tbl2 == IF colon # 0 /\ colon < line_end
                   THEN {<<name, val>>} \cup {e \in tbl : e[1] # name}
                   ELSE tbl
       IN  IF nl # 0 THEN push_headers_loop(Drop(p, nl), tbl2) ELSE tbl2

_push_headers_table(raw) == push_headers_loop(raw, {})

\* mt_http_request_done, lines 1567-1577
mt_http_request_done ==
  /\ lua.pc = "idle"
  /\ lua' = [lua EXCEPT !.ret = [NoReturn EXCEPT !.call = "done",
                                                 !.flag = ~lua.ptr \/ req.state # 0]]
  /\ UNCHANGED <<req, w, net, wire, file, tls_loaded, hist, aux_vars>>

\* the four values result() pushes
ResultValues(body, status, headers, err) ==
  [call |-> "result", flag |-> FALSE, body |-> body, status |-> status,
   headers |-> headers, err |-> err]

\* faulty variant: the early return for a running request is missing
mt_http_request_result_nocheck ==
  /\ lua.pc = "idle"
  /\ lua.joins < MaxJoins
  /\ IF ~lua.ptr
     THEN lua' = [lua EXCEPT !.ret = ResultValues(NIL, 0, {}, MSG_consumed)]
     ELSE lua' = [lua EXCEPT !.pc = "result_join", !.st = req.state]
  /\ UNCHANGED <<req, w, net, wire, file, tls_loaded, hist, aux_vars>>

\* mt_http_request_result, lines 1619-1638: up to the join
mt_http_request_result ==
  /\ lua.pc = "idle"
  /\ lua.joins < MaxJoins
  /\ IF ~lua.ptr
     THEN lua' = [lua EXCEPT !.ret = ResultValues(NIL, 0, {}, MSG_consumed)]
     ELSE IF req.state = 0
     THEN lua' = [lua EXCEPT !.ret = ResultValues(NIL, 0, {}, MSG_in_progress)]
     ELSE lua' = [lua EXCEPT !.pc = "result_join", !.st = req.state]
  /\ UNCHANGED <<req, w, net, wire, file, tls_loaded, hist, aux_vars>>

\* mt_http_request_result, lines 1640-1661: the join returns, the values are
\* pushed
result_join ==
  /\ lua.pc = "result_join"
  /\ thread_join_returns
  /\ lua' = [lua EXCEPT
               !.pc = "idle",
               !.joins = @ + 1,
               !.ret = IF lua.st = 2
                       THEN ResultValues(NIL, 0, {}, req.error)
                       ELSE ResultValues(IF req.output_path # <<>> THEN NIL
                                         ELSE req.response_body,
                                         req.status_code,
                                         _push_headers_table(req.response_headers_raw),
                                         NIL)]
  /\ UNCHANGED <<req, w, net, wire, file, tls_loaded, hist, aux_vars>>

\* faulty variant: the request is freed without joining the worker
mt_http_request_gc_nojoin ==
  /\ lua.pc = "idle"
  /\ lua.ptr
  /\ lua' = [lua EXCEPT !.pc = "gc_free"]
  /\ UNCHANGED <<req, w, net, wire, file, tls_loaded, hist, aux_vars>>

\* mt_http_request_gc, lines 1537-1546: the join returns
mt_http_request_gc ==
  /\ lua.pc = "idle"
  /\ lua.ptr
  /\ thread_join_returns
  /\ lua' = [lua EXCEPT !.pc = "gc_free", !.joins = @ + 1]
  /\ UNCHANGED <<req, w, net, wire, file, tls_loaded, hist, aux_vars>>

\* mt_http_request_gc, lines 1548-1561: everything is freed, the userdata
\* pointer is cleared
gc_free ==
  /\ lua.pc = "gc_free"
  /\ lua' = [lua EXCEPT !.pc = "idle", !.ptr = FALSE]
  /\ UNCHANGED <<req, w, net, wire, file, tls_loaded, hist, aux_vars>>

\* ------------------------------------------------------------------------
\* Specification
\* ------------------------------------------------------------------------
Next ==
  \/ WorkerStart
  \/ WorkerStartOom
  \/ ParseUrl
  \/ TooManyRedirects
  \/ TlsInitOk
  \/ TlsInitFail
  \/ ConnectOk
  \/ ConnectFail
  \/ BuildRequest
  \/ SendStep
  \/ SendFail
  \/ ReadStatus
  \/ ReadStatusFail
  \/ ReadHeader
  \/ ReadHeaderFail
  \/ FollowRedirect
  \/ RedirectOom
  \/ NoOutputFile
  \/ OpenAppend
  \/ AdjustTotal
  \/ OpenTruncate
  \/ OpenFail
  \/ SelectFraming
  \/ ChunkLine
  \/ ChunkLineEof
  \/ ChunkData
  \/ ChunkDataFail
  \/ ChunkCrlf
  \/ LengthData
  \/ LengthDataFail
  \/ CloseData
  \/ CloseEnd
  \/ WriteFail
  \/ Finish
  \/ WorkerReturn
  \/ mt_http_request_done
  \/ mt_http_request_result
  \/ result_join
  \/ mt_http_request_gc
  \/ gc_free

Spec == Init /\ [][Next]_vars

\* the steps of the worker thread
WorkerNext ==
  \/ WorkerStart
  \/ WorkerStartOom
  \/ ParseUrl
  \/ TooManyRedirects
  \/ TlsInitOk
  \/ TlsInitFail
  \/ ConnectFail
  \/ ConnectOk
  \/ BuildRequest
  \/ SendFail
  \/ SendStep
  \/ ReadStatusFail
  \/ ReadStatus
  \/ ReadHeaderFail
  \/ ReadHeader
  \/ RedirectOom
  \/ FollowRedirect
  \/ NoOutputFile
  \/ OpenFail
  \/ OpenAppend
  \/ AdjustTotal
  \/ OpenTruncate
  \/ SelectFraming
  \/ ChunkLineEof
  \/ ChunkLine
  \/ ChunkDataFail
  \/ ChunkData
  \/ ChunkCrlf
  \/ LengthDataFail
  \/ LengthData
  \/ CloseEnd
  \/ CloseData
  \/ WriteFail
  \/ Finish
  \/ WorkerReturn

\* the worker is a thread of its own (thread.make, line 1816): it keeps
\* running while it has a step to take, every socket, TLS and file
\* operation returning
SpecLive == Init /\ [][WorkerNext]_vars /\ WF_vars(WorkerNext)

TypeOK ==
  /\ req.state \in {0, 1, 2}
  /\ w.conn \in {"none", "open", "closed"}
  /\ w.out_file \in {"null", "open", "closed"}


\* ------------------------------------------------------------------------
\* Process-wide initialisers called by concurrent workers:
\* _winsock_init (lines 45-67) and _tls_init (lines 98-134, 181-259)
\* ------------------------------------------------------------------------
NThreads == 2
MaxCalls == 2

Threads == 1..NThreads

\* the request of the main specification, idle
IdleRequest == RequestInit(CHOOSE d \in Descriptors : d.url = URL_BAD)

\* g_winsock_state = 0, g_cred_initialized / _ossl.loaded = false, every
\* thread outside the initialisers
ThreadsInit ==
  /\ IdleRequest
  /\ ev = NoEval
  /\ th = [pc |-> [t \in Threads |-> "idle"],
           calls |-> [t \in Threads |-> 0],
           g_winsock_state |-> 0,
           loaded |-> FALSE,
           startups |-> 0, startup_failed |-> FALSE, ws_false |-> FALSE,
           acquisitions |-> 0, acquire_failed |-> FALSE]

ThreadStep(t, pc, rec) == th' = [rec EXCEPT !.pc[t] = pc]

\* lines 46-47: compare_exchange_strong(expected = 0, 1)
winsock_cas(t) ==
  /\ th.pc[t] = "idle"
  /\ th.calls[t] < MaxCalls
  /\ IF th.g_winsock_state = 0
     THEN ThreadStep(t, "ws_startup", [th EXCEPT !.calls[t] = @ + 1, !.g_winsock_state = 1])
     ELSE ThreadStep(t, "ws_load", [th EXCEPT !.calls[t] = @ + 1])
  /\ UNCHANGED <<req, w, net, wire, file, tls_loaded, lua, hist, ev>>

\* lines 48-57: WSAStartup returned 0, store(2), return true
winsock_startup_ok(t) ==
  /\ th.pc[t] = "ws_startup"
  /\ ThreadStep(t, "idle", [th EXCEPT !.startups = @ + 1, !.g_winsock_state = 2])
  /\ UNCHANGED <<req, w, net, wire, file, tls_loaded, lua, hist, ev>>

\* lines 48-55: WSAStartup failed, store(-1), return false
winsock_startup_fail(t) ==
  /\ th.pc[t] = "ws_startup"
  /\ ThreadStep(t, "idle", [th EXCEPT !.startups = @ + 1, !.g_winsock_state = -1,
                                      !.startup_failed = TRUE, !.ws_false = TRUE])
  /\ UNCHANGED <<req, w, net, wire, file, tls_loaded, lua, hist, ev>>

\* lines 60-66: the exchange failed; true only if the state read is 2
winsock_load(t) ==
  /\ th.pc[t] = "ws_load"
  /\ ThreadStep(t, "idle", [th EXCEPT !.ws_false = @ \/ th.g_winsock_state # 2])
  /\ UNCHANGED <<req, w, net, wire, file, tls_loaded, lua, hist, ev>>

\* line 99 / 182: the flag is read; true returns at once and the caller goes
\* on to use the global handle / symbol table
tls_check(t) ==
  /\ th.pc[t] = "idle"
  /\ th.calls[t] < MaxCalls
  /\ ThreadStep(t, IF th.loaded THEN "tls_use" ELSE "tls_acquire",
                [th EXCEPT !.calls[t] = @ + 1])
  /\ UNCHANGED <<req, w, net, wire, file, tls_loaded, lua, hist, ev>>

\* lines 109-119 / 197-240: the acquisition starts writing the global
\* g_cred_handle / _ossl
tls_acquire(t) ==
  /\ th.pc[t] = "tls_acquire"
  /\ ThreadStep(t, "tls_writing", [th EXCEPT !.acquisitions = @ + 1])
  /\ UNCHANGED <<req, w, net, wire, file, tls_loaded, lua, hist, ev>>

\* lines 132-133 / 253-258: the acquisition succeeded, the flag is set
tls_acquired(t) ==
  /\ th.pc[t] = "tls_writing"
  /\ ThreadStep(t, "tls_use", [th EXCEPT !.loaded = TRUE])
  /\ UNCHANGED <<req, w, net, wire, file, tls_loaded, lua, hist, ev>>

\* lines 125-130 / 201-251: the acquisition failed, return false
tls_acquire_fail(t) ==
  /\ th.pc[t] = "tls_writing"
  /\ ThreadStep(t, "idle", [th EXCEPT !.acquire_failed = TRUE])
  /\ UNCHANGED <<req, w, net, wire, file, tls_loaded, lua, hist, ev>>

\* the caller that got true uses the symbols / the handle (_conn_connect,
\* lines 434-470; _schannel_handshake, lines 497-560) and is done with them
tls_use(t) ==
  /\ th.pc[t] = "tls_use"
  /\ ThreadStep(t, "idle", th)
  /\ UNCHANGED <<req, w, net, wire, file, tls_loaded, lua, hist, ev>>

ThreadsNext ==
  \E t \in Threads :
    \/ winsock_cas(t)
    \/ winsock_startup_ok(t)
    \/ winsock_startup_fail(t)
    \/ winsock_load(t)
    \/ tls_check(t)
    \/ tls_acquire(t)
    \/ tls_acquired(t)
    \/ tls_acquire_fail(t)
    \/ tls_use(t)

SpecThreads == ThreadsInit /\ [][ThreadsNext]_vars

\* ------------------------------------------------------------------------
\* _url_parse applied to one URL
\* ------------------------------------------------------------------------
Fill(n) == [i \in 1..n |-> 112]

\* the pieces the URLs are put together from; a port piece starts with ":"
UrlSchemes == {STR_http, STR_https, <<102,116,112,58,47,47>>, <<104,116,116,112,58>>, <<72,84,84,80,83,58,47,47>>}

UrlHosts == {<<>>, <<97>>, <<97,98,46,99>>, Fill(HOST_SIZE - 1), Fill(HOST_SIZE)}

UrlPorts == {<<>>, <<COLON>>, <<58,56,49>>, <<58,112,114,105,110,116,101,114>>, <<58,49,50,51,52,53,54,55,56>>}

UrlPaths == {<<>>, STR_slash, <<47,120>>, <<47,120,58,121,47,122>>,
             STR_slash \o Fill(PATH_SIZE - 2), STR_slash \o Fill(PATH_SIZE - 1)}

UrlPieces == [scheme : UrlSchemes, host : UrlHosts, port : UrlPorts, path : UrlPaths]

UrlOf(p) == p.scheme \o p.host \o p.port \o p.path

UrlInit ==
  /\ IdleRequest
  /\ th = NoThreads
  /\ \E p \in UrlPieces :
       ev = [fn |-> "_url_parse", pieces |-> p, arg |-> UrlOf(p), done |-> FALSE, out |-> NoUrl,
             again |-> FALSE, arg2 |-> <<>>, out2 |-> NoUrl]

\* lines 285-336: the call
url_parse_call ==
  /\ ev.fn = "_url_parse"
  /\ ~ev.done
  /\ ev' = [ev EXCEPT !.out = _url_parse(ev.arg), !.done = TRUE]
  /\ UNCHANGED <<req, w, net, wire, file, tls_loaded, lua, hist, th>>

\* the text scheme://host[:port]path of parsed fields; the port may be left
\* out only when it is the default of the scheme
UrlText(u, with_port) ==
  (IF u.https THEN STR_https ELSE STR_http) \o u.host
    \o (IF with_port THEN <<COLON>> \o u.port ELSE <<>>) \o u.path

DefaultPort(u) == IF u.https THEN STR_443 ELSE STR_80

\* lines 285-336: the call on the text rebuilt from an accepted result
url_reparse_call ==
  /\ ev.fn = "_url_parse"
  /\ ev.done
  /\ ev.out.ok
  /\ ~ev.again
  /\ \E with_port \in BOOLEAN :
       /\ with_port \/ ev.out.port = DefaultPort(ev.out)
       /\ ev' = [ev EXCEPT !.arg2 = UrlText(ev.out, with_port),
                           !.out2 = _url_parse(UrlText(ev.out, with_port)),
                           !.again = TRUE]
  /\ UNCHANGED <<req, w, net, wire, file, tls_loaded, lua, hist, th>>

UrlNext == url_parse_call \/ url_reparse_call

SpecUrl == UrlInit /\ [][UrlNext]_vars

\* ------------------------------------------------------------------------
\* _read_line and _hex_to_u64 applied to one byte string
\* ------------------------------------------------------------------------
MaxLineLen == 4

\* "a", "F", "4", ";", CR, LF
LineBytes == {97, 70, 52, 59, CR, LF}

LineInputs == UNION {[1..n -> LineBytes] : n \in 0..MaxLineLen}

LinesInit ==
  /\ IdleRequest
  /\ th = NoThreads
  /\ \E s \in LineInputs :
       ev = [fn |-> "lines", arg |-> s,
             line_done |-> FALSE, line_out |-> [ok |-> FALSE, line |-> <<>>, rest |-> <<>>],
             hex_done |-> FALSE, hex_out |-> 0]

\* lines 1034-1053: the call, the bytes being what the connection delivers
\* before it closes
read_line_call ==
  /\ ev.fn = "lines"
  /\ ~ev.line_done
  /\ ev' = [ev EXCEPT !.line_out = _read_line(ev.arg), !.line_done = TRUE]
  /\ UNCHANGED <<req, w, net, wire, file, tls_loaded, lua, hist, th>>

\* lines 1072-1088: the call, the bytes being a chunk-size line
hex_to_u64_call ==
  /\ ev.fn = "lines"
  /\ ~ev.hex_done
  /\ ev' = [ev EXCEPT !.hex_out = _hex_to_u64(ev.arg), !.hex_done = TRUE]
  /\ UNCHANGED <<req, w, net, wire, file, tls_loaded, lua, hist, th>>

LinesNext == read_line_call \/ hex_to_u64_call

SpecLines == LinesInit /\ [][LinesNext]_vars

\* ------------------------------------------------------------------------
\* _tls_init of the OpenSSL build and the calls made through _ossl
\* ------------------------------------------------------------------------
\* lines 225-238: the symbols looked up in libssl
OsslSymbols ==
  {"OPENSSL_init_ssl", "TLS_client_method", "SSL_CTX_new", "SSL_CTX_free",
   "SSL_CTX_ctrl", "SSL_new", "SSL_free", "SSL_set_fd", "SSL_connect",
   "SSL_read", "SSL_write", "SSL_shutdown", "SSL_ctrl", "SSL_get_error"}

\* dlopen finds libcrypto and libssl or not; dlsym resolves any part of the
\* symbols
OsslInit ==
  /\ IdleRequest
  /\ th = NoThreads
  /\ \E crypto \in BOOLEAN, ssl \in BOOLEAN, resolved \in SUBSET OsslSymbols :
       /\ (crypto /\ ssl) \/ resolved = {}
       /\ ev = [fn |-> "_tls_init", crypto |-> crypto, ssl |-> ssl,
                resolved |-> resolved, pc |-> "load", loaded |-> FALSE,
                err |-> <<>>, fault |-> "none"]

\* the first of the calls that goes through a null pointer, "none" if all
\* the pointers called are resolved
first_null(calls, resolved) ==
  LET at == {i \in 1..Len(calls) : calls[i] \notin resolved}
  IN  IF at = {} THEN "none" ELSE calls[CHOOSE i \in at : \A j \in at : i <= j]

\* a call through a null function pointer ends the process
ossl_calls(calls, next_pc) ==
  LET f == first_null(calls, ev.resolved)
  IN  ev' = [ev EXCEPT !.fault = f, !.pc = IF f = "none" THEN next_pc ELSE "fault"]

\* lines 181-259
ossl_tls_init_call ==
  /\ ev.fn = "_tls_init"
  /\ ev.pc = "load"
  /\ IF ~ev.crypto THEN ev' = [ev EXCEPT !.err = MSG_tls_crypto, !.pc = "failed"]
     ELSE IF ~ev.ssl THEN ev' = [ev EXCEPT !.err = MSG_tls_ssl, !.pc = "failed"]
     ELSE IF ~({"SSL_CTX_new", "TLS_client_method", "SSL_new",
                "SSL_connect", "SSL_read", "SSL_write"} \subseteq ev.resolved)
          THEN ev' = [ev EXCEPT !.err = MSG_tls_syms, !.pc = "failed"]
     ELSE ev' = [ev EXCEPT !.loaded = TRUE, !.pc = "connect"]
  /\ UNCHANGED <<req, w, net, wire, file, tls_loaded, lua, hist, th>>

\* lines 432-485: _conn_connect after _tls_init returned true, up to one of
\* its returns; SSL_ctrl and SSL_get_error are called only when resolved
ossl_connect_calls ==
  /\ ev.fn = "_tls_init"
  /\ ev.pc = "connect"
  /\ LET sni    == IF "SSL_ctrl" \in ev.resolved THEN <<"SSL_ctrl">> ELSE <<>>
         geterr == IF "SSL_get_error" \in ev.resolved THEN <<"SSL_get_error">> ELSE <<>>
         ctx    == <<"TLS_client_method", "SSL_CTX_new">>
         hs     == ctx \o <<"SSL_new", "SSL_set_fd">> \o sni \o <<"SSL_connect">>
     IN  \/ ossl_calls(ctx, "failed")
         \/ ossl_calls(ctx \o <<"SSL_new", "SSL_CTX_free">>, "failed")
         \/ ossl_calls(hs \o geterr \o <<"SSL_free", "SSL_CTX_free">>, "failed")
         \/ ossl_calls(hs, "io")
  /\ UNCHANGED <<req, w, net, wire, file, tls_loaded, lua, hist, th>>

\* lines 884-908: the request is written and the response read
ossl_io_calls ==
  /\ ev.fn = "_tls_init"
  /\ ev.pc = "io"
  /\ ossl_calls(<<"SSL_write", "SSL_read">>, "close")
  /\ UNCHANGED <<req, w, net, wire, file, tls_loaded, lua, hist, th>>

\* lines 928-938: _conn_close with a session and a context
ossl_close_calls ==
  /\ ev.fn = "_tls_init"
  /\ ev.pc = "close"
  /\ ossl_calls(<<"SSL_shutdown", "SSL_free", "SSL_CTX_free">>, "closed")
  /\ UNCHANGED <<req, w, net, wire, file, tls_loaded, lua, hist, th>>

OsslNext == ossl_tls_init_call \/ ossl_connect_calls \/ ossl_io_calls \/ ossl_close_calls

SpecOssl == OsslInit /\ [][OsslNext]_vars

\* ------------------------------------------------------------------------
\* _schannel_send applied to one plaintext
\* ------------------------------------------------------------------------
\* EncryptMessage as _schannel_send calls it: the buffer comes back as a
\* record of cbHeader + len + cbTrailer bytes, none of them the plaintext
EncryptMessage(data, cbHeader, cbTrailer) ==
  [i \in 1..cbHeader |-> 23] \o [i \in 1..Len(data) |-> data[i] + 128]
    \o [i \in 1..cbTrailer |-> 255]

\* the plaintext and the stream sizes QueryContextAttributes reports
SendInit ==
  /\ IdleRequest
  /\ th = NoThreads
  /\ \E data \in {<<>>, <<97>>, <<97,98,99>>}, cbHeader \in {5, 13}, cbTrailer \in {0, 16} :
       ev = [fn |-> "_schannel_send", data |-> data, cbHeader |-> cbHeader,
             cbTrailer |-> cbTrailer, returned |-> FALSE, ret |-> 0, wire |-> <<>>]

\* lines 688-733; sent is what send() returns for the whole record
schannel_send_call ==
  /\ ev.fn = "_schannel_send"
  /\ ~ev.returned
  /\ LET len    == Len(ev.data)
         buffer == EncryptMessage(ev.data, ev.cbHeader, ev.cbTrailer)
     IN  IF len <= 0
         THEN ev' = [ev EXCEPT !.returned = TRUE, !.ret = 0]
         ELSE \/ ev' = [ev EXCEPT !.returned = TRUE, !.ret = -1]
              \/ \E sent \in (-1)..Len(buffer) :
                   ev' = [ev EXCEPT !.returned = TRUE,
                                    !.ret = IF sent > 0 THEN len ELSE -1,
                                    !.wire = IF sent > 0 THEN Take(buffer, sent) ELSE <<>>]
  /\ UNCHANGED <<req, w, net, wire, file, tls_loaded, lua, hist, th>>

SpecSend == SendInit /\ [][schannel_send_call]_vars

\* ------------------------------------------------------------------------
\* _schannel_recv called again and again on one connection
\* ------------------------------------------------------------------------
READ_BUFFER_CAP == 16384

\* a TLS record as it travels: a data record is its length and its
\* ciphertext; <<-1>> is a close_notify, <<-3>> a record that does not
\* decrypt
RecordBytes(rec) ==
  IF rec \in {<<-1>>, <<-3>>} THEN rec
  ELSE <<Len(rec)>> \o [i \in 1..Len(rec) |-> rec[i] + 128]

RECURSIVE StreamBytes(_)
StreamBytes(recs) ==
  IF recs = <<>> THEN <<>> ELSE RecordBytes(Head(recs)) \o StreamBytes(Tail(recs))

\* the plaintext the peer sent up to its close_notify or its bad record
RECURSIVE StreamPlain(_)
StreamPlain(recs) ==
  IF recs = <<>> \/ Head(recs) \in {<<-1>>, <<-3>>} THEN <<>>
  ELSE Head(recs) \o StreamPlain(Tail(recs))

\* the records the peer sends before it closes, the lengths the caller
\* asks for, whether the socket delivers short counts, and how many bytes
\* the handshake left in the read buffer as EXTRA
RecvInputs ==
  [recs : {<<<<97,98>>, <<99>>>>, <<<<97,98,99>>>>, <<<<>>, <<97>>, <<>>>>,
           <<<<97>>, <<-1>>, <<98>>>>, <<<<97,98>>, <<-3>>>>},
   lens : {{1, 2, FILE_BUF_SIZE}}, short : {TRUE}, seed : {0, 2, 4}]
  \cup
  [recs : {<<Fill(READ_BUFFER_CAP), <<97>>>>},
   lens : {{FILE_BUF_SIZE, READ_EXACT_MAX}}, short : {FALSE}, seed : {0}]

RecvInit ==
  /\ IdleRequest
  /\ th = NoThreads
  /\ \E in \in RecvInputs :
       LET bytes == StreamBytes(in.recs)
       IN  ev = [fn |-> "_schannel_recv", in |-> in,
                 sock |-> Drop(bytes, in.seed),
                 read_buffer |-> IF in.seed > 0 THEN Take(bytes, in.seed) ELSE NIL,
                 read_buffer_len |-> in.seed,
                 read_buffer_cap |-> IF in.seed > 0 THEN READ_BUFFER_CAP ELSE 0,
                 plain_buffer |-> NIL, plain_len |-> 0, plain_offset |-> 0,
                 pc |-> "idle", len |-> 0, ret |-> 0, out |-> <<>>,
                 status |-> "none", lost |-> FALSE]

\* DecryptMessage as _schannel_recv calls it on the bytes held: the status,
\* the plaintext of the first record and the count of EXTRA bytes behind it
DecryptMessage(held) ==
  LET n == held[1]
  IN  IF n = -1 THEN [status |-> "CONTEXT_EXPIRED", data |-> <<>>, extra |-> 0]
      ELSE IF n = -3 THEN [status |-> "ERROR", data |-> <<>>, extra |-> 0]
      ELSE IF Len(held) < 1 + n
           THEN [status |-> "INCOMPLETE_MESSAGE", data |-> <<>>, extra |-> 0]
      ELSE [status |-> "OK", data |-> [i \in 1..n |-> held[1 + i] - 128],
            extra |-> Len(held) - (1 + n)]

\* a faulty variant: the length is set without moving the bytes
move_extra_nomove(held, extra) == Take(held, extra)

\* lines 803-808, 837-841: memmove of the EXTRA bytes to the front
move_extra(held, extra) == SubSeq(held, Len(held) - extra + 1, Len(held))

\* what recv() returns with room for `room` bytes: a count, 0 at the close,
\* -1 on an error
recv_counts(room) ==
  {-1} \cup (IF ev.sock = <<>> THEN {0}
             ELSE IF ev.in.short THEN ReadSizes(room, Len(ev.sock))
             ELSE {Min(room, Len(ev.sock))})

\* lines 735-760: the call up to the loop; spilled plaintext is returned
\* first, the read buffer is allocated when there is none
schannel_recv_call ==
  /\ ev.fn = "_schannel_recv"
  /\ ev.pc = "idle"
  /\ \E len \in ev.in.lens :
       IF ev.plain_buffer # NIL /\ ev.plain_offset < ev.plain_len
       THEN LET avail   == ev.plain_len - ev.plain_offset
                to_copy == Min(avail, len)
                drained == ev.plain_offset + to_copy >= ev.plain_len
            IN  ev' = [ev EXCEPT
                         !.len = len,
                         !.out = @ \o SubSeq(ev.plain_buffer, ev.plain_offset + 1,
                                             ev.plain_offset + to_copy),
                         !.plain_offset = IF drained THEN 0 ELSE @ + to_copy,
                         !.plain_len = IF drained THEN 0 ELSE @,
                         !.plain_buffer = IF drained THEN NIL ELSE @,
                         !.ret = to_copy, !.status = "spill"]
       ELSE IF ev.read_buffer = NIL
            THEN \/ ev' = [ev EXCEPT !.len = len, !.read_buffer_cap = READ_BUFFER_CAP,
                                     !.read_buffer = <<>>, !.read_buffer_len = 0,
                                     !.pc = "loop", !.status = "none"]
                 \/ ev' = [ev EXCEPT !.len = len, !.read_buffer_cap = READ_BUFFER_CAP,
                                     !.ret = -1, !.pc = "returned", !.status = "none"]
            ELSE ev' = [ev EXCEPT !.len = len, !.pc = "loop", !.status = "none"]
  /\ UNCHANGED <<req, w, net, wire, file, tls_loaded, lua, hist, th>>

\* lines 764-772: the read buffer is empty, it is filled from the socket
recv_fill ==
  /\ ev.fn = "_schannel_recv"
  /\ ev.pc = "loop"
  /\ ev.read_buffer_len = 0
  /\ \E recvd \in recv_counts(ev.read_buffer_cap) :
       IF recvd <= 0
       THEN ev' = [ev EXCEPT !.ret = recvd, !.pc = "returned"]
       ELSE ev' = [ev EXCEPT !.read_buffer = Take(ev.sock, recvd),
                             !.read_buffer_len = recvd,
                             !.sock = Drop(ev.sock, recvd)]
  /\ UNCHANGED <<req, w, net, wire, file, tls_loaded, lua, hist, th>>

\* lines 774-875: DecryptMessage on the bytes held and the branch its
\* status selects
recv_decrypt ==
  /\ ev.fn = "_schannel_recv"
  /\ ev.pc = "loop"
  /\ ev.read_buffer_len > 0
  /\ LET held == Take(ev.read_buffer, ev.read_buffer_len)
         d    == DecryptMessage(held)
         rest == move_extra(held, d.extra)
     IN  IF d.status = "OK" /\ d.data = <<>>
         THEN ev' = [ev EXCEPT !.read_buffer = rest, !.read_buffer_len = d.extra,
                               !.status = "OK"]
         ELSE IF d.status = "OK"
         THEN LET to_copy == Min(Len(d.data), ev.len)
                  spill   == Drop(d.data, to_copy)
              IN  \E malloc_ok \in BOOLEAN :
                    ev' = [ev EXCEPT
                             !.out = @ \o Take(d.data, to_copy),
                             !.plain_buffer = IF spill = <<>> THEN @
                                              ELSE IF malloc_ok THEN spill ELSE NIL,
                             !.plain_len = IF spill # <<>> /\ malloc_ok THEN Len(spill) ELSE @,
                             !.plain_offset = IF spill # <<>> /\ malloc_ok THEN 0 ELSE @,
                             !.lost = @ \/ (spill # <<>> /\ ~malloc_ok),
                             !.read_buffer = rest, !.read_buffer_len = d.extra,
                             !.ret = to_copy, !.pc = "idle", !.status = "OK"]
         ELSE IF d.status = "INCOMPLETE_MESSAGE"
         THEN LET full == ev.read_buffer_len >= ev.read_buffer_cap
                  cap  == IF full THEN ev.read_buffer_cap * 2 ELSE ev.read_buffer_cap
              IN  \/ /\ full
                     /\ ev' = [ev EXCEPT !.ret = -1, !.pc = "returned",
                                         !.status = "INCOMPLETE_MESSAGE"]
                  \/ \E recvd \in recv_counts(cap - ev.read_buffer_len) :
                       IF recvd <= 0
                       THEN ev' = [ev EXCEPT !.read_buffer_cap = cap, !.ret = recvd,
                                             !.pc = "returned",
                                             !.status = "INCOMPLETE_MESSAGE"]
                       ELSE ev' = [ev EXCEPT !.read_buffer_cap = cap,
                                             !.read_buffer = held \o Take(ev.sock, recvd),
                                             !.read_buffer_len = @ + recvd,
                                             !.sock = Drop(ev.sock, recvd),
                                             !.status = "INCOMPLETE_MESSAGE"]
         ELSE IF d.status = "CONTEXT_EXPIRED"
         THEN ev' = [ev EXCEPT !.read_buffer = <<>>, !.read_buffer_len = 0, !.ret = 0,
                               !.pc = "returned", !.status = "CONTEXT_EXPIRED"]
         ELSE ev' = [ev EXCEPT !.ret = -1, !.pc = "returned", !.status = "ERROR"]
  /\ UNCHANGED <<req, w, net, wire, file, tls_loaded, lua, hist, th>>

\* a faulty variant: the spill buffer is forgotten
conn_close_keep_spill ==
  /\ ev.fn = "_schannel_recv"
  /\ ev.pc \in {"idle", "returned"}
  /\ ev' = [ev EXCEPT !.read_buffer = NIL, !.read_buffer_len = 0, !.read_buffer_cap = 0,
                      !.pc = "closed"]
  /\ UNCHANGED <<req, w, net, wire, file, tls_loaded, lua, hist, th>>

\* lines 910-927: _conn_close between two calls or after the last one
conn_close ==
  /\ ev.fn = "_schannel_recv"
  /\ ev.pc \in {"idle", "returned"}
  /\ ev' = [ev EXCEPT !.read_buffer = NIL,
                      !.read_buffer_len = IF ev.read_buffer # NIL THEN 0 ELSE @,
                      !.read_buffer_cap = IF ev.read_buffer # NIL THEN 0 ELSE @,
                      !.plain_buffer = NIL,
                      !.plain_len = IF ev.plain_buffer # NIL THEN 0 ELSE @,
                      !.plain_offset = IF ev.plain_buffer # NIL THEN 0 ELSE @,
                      !.pc = "closed"]
  /\ UNCHANGED <<req, w, net, wire, file, tls_loaded, lua, hist, th>>

SpecRecv ==
  RecvInit /\ [][schannel_recv_call \/ recv_fill \/ recv_decrypt \/ conn_close]_vars
\* ------------------------------------------------------------------------
\* _schannel_handshake on one connected socket
\* ------------------------------------------------------------------------
RECEIVE_BUFFER_SIZE == 16384
MAX_HANDSHAKE_ITERATIONS == 100

\* handshake messages as the peer sends them: a message travels as its
\* length and its bytes; a message that starts with 20 completes the
\* handshake, one that starts with 21 is refused by the platform; what
\* follows the completing message is application data
HsContinue == <<2, 22, 1>>
HsFinished == <<2, 20, 1>>
HsAlert    == <<1, 21>>
HsAppData  == <<1, 225>>

RECURSIVE Repeat(_, _)
Repeat(s, n) == IF n = 0 THEN <<>> ELSE s \o Repeat(s, n - 1)

\* the bytes the peer sends before it closes, whether the socket delivers
\* short counts, and whether the platform answers the first call at once
HandshakeInputs ==
  [bytes : {HsContinue \o HsFinished, HsContinue \o HsFinished \o HsAppData,
            HsFinished \o HsAppData, HsContinue \o HsAlert, HsContinue},
   short : {TRUE}]
  \cup
  [bytes : {Repeat(HsContinue, MAX_HANDSHAKE_ITERATIONS + 1),
            Repeat(HsContinue, MAX_HANDSHAKE_ITERATIONS - 2) \o HsFinished \o HsAppData,
            Repeat(HsContinue, MAX_HANDSHAKE_ITERATIONS - 1) \o HsFinished},
   short : {FALSE}]

\* lines 507-526: the locals before the loop; calls counts the calls of
\* InitializeSecurityContextA, input/status/extra are those of the latest
\* call, fresh the bytes recv delivered after it, got every byte received,
\* consumed every byte the platform took
HandshakeInit ==
  /\ IdleRequest
  /\ th = NoThreads
  /\ \E in \in HandshakeInputs :
       ev = [fn |-> "_schannel_handshake", in |-> in, sock |-> in.bytes,
             pc |-> "start", i |-> 0, initial |-> TRUE,
             receive_buffer |-> <<>>, receive_len |-> 0,
             read_buffer |-> NIL, read_buffer_len |-> 0, read_buffer_cap |-> 0,
             ret |-> FALSE, err |-> "", calls |-> 0,
             input |-> <<>>, status |-> "none", extra |-> 0, fresh |-> <<>>,
             got |-> <<>>, consumed |-> <<>>, token |-> 0, sent |-> 0]

\* InitializeSecurityContextA as the loop calls it: the first call has no
\* input and produces the first token; a later call takes one whole message
\* from the front of the input and reports the bytes behind it as EXTRA
InitializeSecurityContextA(initial, input) ==
  IF initial THEN [status |-> "CONTINUE_NEEDED", extra |-> 0, token |-> 3]
  ELSE IF input = <<>> \/ Len(input) < 1 + input[1]
       THEN [status |-> "INCOMPLETE_MESSAGE", extra |-> 0, token |-> 0]
  ELSE LET kind == input[2]
           rest == Len(input) - (1 + input[1])
       IN  IF kind = 21 THEN [status |-> "ILLEGAL_MESSAGE", extra |-> 0, token |-> 2]
           ELSE IF kind = 20 THEN [status |-> "OK", extra |-> rest, token |-> rest % 2]
           ELSE [status |-> "CONTINUE_NEEDED", extra |-> rest, token |-> 1 - (rest % 2)]

\* a faulty variant: the loop goes on for as long as the peer keeps it going
handshake_loop_cond_unbounded(i) == TRUE

\* line 529: i < 100
handshake_loop_cond(i) == i < MAX_HANDSHAKE_ITERATIONS

\* what recv() returns with room for `room` bytes
handshake_recv_counts(room) ==
  {-1} \cup (IF ev.sock = <<>> \/ room = 0 THEN {0}
             ELSE IF ev.in.short THEN ReadSizes(room, Len(ev.sock))
             ELSE {Min(room, Len(ev.sock))})

\* lines 495-686, one step: the entry with _tls_init, then one iteration of
\* the loop per step (the call of InitializeSecurityContextA and the branch
\* its status selects), or the exit below the loop
schannel_handshake_step ==
  /\ ev.fn = "_schannel_handshake"
  /\ ev.pc \in {"start", "loop"}
  /\ IF ev.pc = "start"
     THEN \/ ev' = [ev EXCEPT !.pc = "loop"]
          \/ ev' = [ev EXCEPT !.pc = "returned", !.ret = FALSE, !.err = "_tls_init"]
     ELSE IF ~handshake_loop_cond(ev.i)
     THEN ev' = [ev EXCEPT !.pc = "returned", !.ret = FALSE,
                           !.err = "TLS handshake timeout (too many iterations)"]
     ELSE
       LET input == IF ev.initial THEN <<>> ELSE Take(ev.receive_buffer, ev.receive_len)
           r     == InitializeSecurityContextA(ev.initial, input)
           taken == Take(input, Len(input) - r.extra)
           \* the state right after the call returned
           c     == [ev EXCEPT !.initial = FALSE, !.calls = @ + 1, !.i = @ + 1,
                               !.input = input, !.status = r.status,
                               !.extra = r.extra, !.fresh = <<>>, !.token = r.token,
                               !.consumed = IF r.status \in {"OK", "CONTINUE_NEEDED"}
                                            THEN @ \o taken ELSE @]
           fail(msg) == [c EXCEPT !.pc = "returned", !.ret = FALSE, !.err = msg]
       IN  IF r.status = "OK"
           THEN \E sent \in IF r.token > 0 THEN {-1, 0} \cup WriteSizes(r.token) ELSE {1} :
                  IF r.token > 0 /\ sent <= 0
                  THEN ev' = fail("Failed to send final TLS handshake token")
                  ELSE \E malloc_ok \in BOOLEAN :
                         ev' = [c EXCEPT
                                  !.sent = @ + (IF r.token > 0 THEN sent ELSE 0),
                                  !.read_buffer_cap = IF r.extra > 0 THEN READ_BUFFER_CAP ELSE @,
                                  !.read_buffer = IF r.extra > 0 /\ malloc_ok
                                                  THEN SubSeq(input, Len(input) - r.extra + 1, Len(input))
                                                  ELSE @,
                                  !.read_buffer_len = IF r.extra > 0 /\ malloc_ok
                                                      THEN r.extra ELSE @,
                                  !.pc = "returned", !.ret = TRUE]
           ELSE IF r.status = "INCOMPLETE_MESSAGE"
           THEN \E recvd \in handshake_recv_counts(RECEIVE_BUFFER_SIZE - ev.receive_len) :
                  IF recvd <= 0
                  THEN ev' = fail("Failed to receive TLS handshake response")
                  ELSE ev' = [c EXCEPT !.receive_buffer = input \o Take(ev.sock, recvd),
                                       !.receive_len = @ + recvd,
                                       !.fresh = Take(ev.sock, recvd),
                                       !.got = @ \o Take(ev.sock, recvd),
                                       !.sock = Drop(ev.sock, recvd)]
           ELSE IF r.status = "CONTINUE_NEEDED"
           THEN \E sent \in IF r.token > 0 THEN {-1, 0} \cup WriteSizes(r.token) ELSE {1} :
                  IF r.token > 0 /\ sent <= 0
                  THEN ev' = fail("Failed to send TLS handshake token")
                  ELSE LET s == [c EXCEPT !.sent = @ + (IF r.token > 0 THEN sent ELSE 0)]
                       IN  IF r.extra > 0
                           THEN ev' = [s EXCEPT
                                         !.receive_buffer =
                                           SubSeq(input, ev.receive_len - r.extra + 1,
                                                  ev.receive_len),
                                         !.receive_len = r.extra]
                           ELSE \E recvd \in handshake_recv_counts(RECEIVE_BUFFER_SIZE) :
                                  IF recvd <= 0
                                  THEN ev' = fail("Failed to receive TLS handshake response")
                                  ELSE ev' = [s EXCEPT
                                                !.receive_buffer = Take(ev.sock, recvd),
                                                !.receive_len = recvd,
                                                !.fresh = Take(ev.sock, recvd),
                                                !.got = @ \o Take(ev.sock, recvd),
                                                !.sock = Drop(ev.sock, recvd)]
           ELSE ev' = fail("TLS handshake failed")
  /\ UNCHANGED <<req, w, net, wire, file, tls_loaded, lua, hist, th>>

SpecHandshake == HandshakeInit /\ [][schannel_handshake_step]_vars

\* ------------------------------------------------------------------------
\* _conn_connect on a list of resolved addresses
\* ------------------------------------------------------------------------
INVALID_SOCK == -1
MaxAddrs == 3

\* what happens at one resolved address: socket() fails, connect() fails,
\* or the connection is made; and the error number socket_error() reports
AddrOutcomes == {"nosocket", "refused", "connected"}

AddrErrno(o) == IF o = "nosocket" THEN 24 ELSE 111

AddrLists == UNION {[1..n -> AddrOutcomes] : n \in 1..MaxAddrs}

\* lines 367-373: the connection zeroed, sock invalid, err emptied; open is
\* the set of sockets the call created and has not closed, tried the
\* addresses at which socket() was called
ConnectInit ==
  /\ IdleRequest
  /\ th = NoThreads
  /\ \E addrs \in AddrLists, https \in BOOLEAN :
       ev = [fn |-> "_conn_connect", addrs |-> addrs, https |-> https,
             host |-> <<97>>, port |-> IF https THEN STR_443 ELSE STR_80,
             pc |-> "start", rp |-> 1, sock |-> INVALID_SOCK,
             conn_sock |-> INVALID_SOCK, last_err |-> 0, open |-> {},
             tried |-> <<>>, err |-> <<>>, returned |-> FALSE, ret |-> FALSE]

\* a faulty variant: the socket stays open
close_socket_leak(open, s) == open

\* lines 40, 79: close_socket
close_socket(open, s) == open \ {s}

\* lines 365-488, one step: the entry up to getaddrinfo, one address of the
\* list per step, then everything below the loop
conn_connect_step ==
  /\ ev.fn = "_conn_connect"
  /\ ~ev.returned
  /\ IF ev.pc = "start"
     THEN \/ ev' = [ev EXCEPT !.pc = "loop"]
          \/ ev' = [ev EXCEPT !.returned = TRUE, !.ret = FALSE,
                              !.err = MSG_getaddrinfo \o ev.host \o <<COLON>> \o ev.port
                                        \o MSG_failed_colon]
     ELSE IF ev.pc = "loop" /\ ev.rp <= Len(ev.addrs)
     THEN LET o == ev.addrs[ev.rp]
          IN  IF o = "nosocket"
              THEN ev' = [ev EXCEPT !.sock = INVALID_SOCK, !.last_err = AddrErrno(o),
                                    !.rp = @ + 1]
              ELSE IF o = "connected"
              THEN ev' = [ev EXCEPT !.sock = ev.rp, !.open = @ \cup {ev.rp},
                                    !.tried = Append(@, ev.rp), !.pc = "after"]
              ELSE ev' = [ev EXCEPT !.last_err = AddrErrno(o),
                                    !.open = close_socket(@ \cup {ev.rp}, ev.rp),
                                    !.tried = Append(@, ev.rp),
                                    !.sock = INVALID_SOCK, !.rp = @ + 1]
     ELSE IF ev.sock = INVALID_SOCK
     THEN ev' = [ev EXCEPT !.returned = TRUE, !.ret = FALSE,
                           !.err = MSG_connect \o ev.host \o <<COLON>> \o ev.port
                                     \o MSG_failed_colon \o FormatDec(ev.last_err)]
     ELSE \/ ev' = [ev EXCEPT !.conn_sock = ev.sock, !.returned = TRUE, !.ret = TRUE]
          \/ /\ ev.https
             /\ \E msg \in {MSG_tls_ctx, MSG_tls_session, MSG_tls_handshake, <<>>} :
                  ev' = [ev EXCEPT !.open = close_socket(@, ev.sock),
                                   !.conn_sock = INVALID_SOCK, !.err = msg,
                                   !.returned = TRUE, !.ret = FALSE]
  /\ UNCHANGED <<req, w, net, wire, file, tls_loaded, lua, hist, th>>

SpecConnect == ConnectInit /\ [][conn_connect_step]_vars


\* ------------------------------------------------------------------------
\* Properties
\* ------------------------------------------------------------------------
MSG_too_many_10 == <<116,111,111,32,109,97,110,121,32,114,101,100,105,114,101,99,116,115,32,40,109,97,120,32,49,48,41>>  \* "too many redirects (max 10)"

\* where the body of the response goes
BodyDestination == IF req.output_path # <<>> THEN file ELSE req.response_body

\* the header lines of a raw-headers buffer
RECURSIVE RawLines(_)
RawLines(raw) ==
  IF raw = <<>> THEN <<>>
  ELSE LET nl == strchr(raw, LF)
       IN  IF nl = 0 THEN <<raw>>
           ELSE <<SubSeq(raw, 1, nl - 1)>> \o RawLines(Drop(raw, nl))

LineName(line) == [i \in 1..(strchr(line, COLON) - 1) |-> ToLower(line[i])]

LineValue(line) == SkipWhile(SubSeq(line, strchr(line, COLON) + 1, Len(line)), SP)

\* the values of the header `name` (lower case) among the lines, in order
RECURSIVE ValuesOf(_, _)
ValuesOf(lines, name) ==
  IF lines = <<>> THEN <<>>
  ELSE (IF strchr(Head(lines), COLON) # 0 /\ LineName(Head(lines)) = name
        THEN <<LineValue(Head(lines))>> ELSE <<>>) \o ValuesOf(Tail(lines), name)

\* a Transfer-Encoding header containing chunked (either spelling) was seen
SawChunked(raw) ==
  LET vs == ValuesOf(RawLines(raw), STR_transfer_encoding)
  IN  \E i \in 1..Len(vs) : strstr(vs[i], STR_chunked) \/ strstr(vs[i], STR_Chunked)

\* the Content-Length that was seen, -1 if none
SawLength(raw) ==
  LET vs == ValuesOf(RawLines(raw), STR_content_length)
  IN  IF vs = <<>> THEN -1 ELSE strtol(vs[Len(vs)])

\* C1: the lifecycle starts at running (0); it is written at most once, to
\* done (1) or error (2), and once it is not running no step changes it: the
\* worker only returns.
C1_LifecycleMonotonic ==
  /\ req.state = 0
  /\ [][ /\ req'.state # req.state => (req.state = 0 /\ req'.state \in {1, 2})
         /\ req.state # 0 => (req'.state = req.state /\ w'.pc \in {"ret", "exited"})
       ]_vars

C1_Witness == req.state = 2 /\ w.pc = "exited" /\ hist.conns > 0

\* C2: once the lifecycle is done or error, no step of the worker writes
\* status_code, response_headers_raw, response_body, error or a progress
\* counter: the store of the terminal value is the worker's last write.
C2_TerminalStoreIsLastWrite ==
  [][ req.state # 0 =>
        /\ req'.status_code = req.status_code
        /\ req'.response_headers_raw = req.response_headers_raw
        /\ req'.response_body = req.response_body
        /\ req'.error = req.error
        /\ req'.bytes_uploaded = req.bytes_uploaded
        /\ req'.bytes_downloaded = req.bytes_downloaded
        /\ req'.content_length = req.content_length
    ]_vars

C2_Witness == req.state = 1 /\ w.pc = "exited" /\ req.response_body # <<>>

\* C3 as claimed: result() blocks until the request is done, so whenever it
\* has returned for a live request the lifecycle is done or error.
C3_ResultBlocksUntilDone ==
  (lua.ret.call = "result" /\ lua.ptr) => req.state # 0

\* C3 as amended: result() never waits for a running request (it is inside
\* the join only when the lifecycle is already done or error); a return other
\* than "request still in progress" comes after the worker thread ended and
\* carries the final values: body (nil with an output file), status and
\* headers when done, the error message when error.
C3_ResultAfterDone ==
  /\ lua.pc = "result_join" => (req.state # 0 /\ lua.st = req.state)
  /\ (lua.ret.call = "result" /\ lua.ptr /\ lua.ret.err # MSG_in_progress) =>
       /\ w.pc = "exited"
       /\ req.state # 0
       /\ req.state = 1 =>
            /\ lua.ret.err = NIL
            /\ lua.ret.status = req.status_code
            /\ lua.ret.body = (IF req.output_path # <<>> THEN NIL ELSE req.response_body)
            /\ lua.ret.headers = _push_headers_table(req.response_headers_raw)
       /\ req.state = 2 =>
            /\ lua.ret.err = req.error
            /\ lua.ret.body = NIL
            /\ lua.ret.status = 0

C3_Witness ==
  lua.ret.call = "result" /\ lua.ptr /\ lua.ret.err = NIL /\ lua.ret.body # NIL
  /\ lua.ret.headers # {}

\* C4: the Request is freed only after the worker thread has finished, so
\* the worker never touches a freed Request.
C4_FreedAfterWorker ==
  (lua.pc = "gc_free" \/ ~lua.ptr) => w.pc = "exited"

C4_Witness == ~lua.ptr /\ req.state = 1 /\ lua.joins = 1

\* C5: in lifecycle done, bytes_downloaded equals content_length when the
\* length is known and the response is not chunked (on a 206 resume both
\* include resume_offset); in every framing it is the number of bytes the
\* body destination holds, and the destination holds, in order, the bytes it
\* had when it was opened for append followed by the body bytes received.
C5_DownloadedMatchesBody ==
  req.state = 1 =>
    /\ hist.mode = "length" => req.bytes_downloaded = req.content_length
    /\ req.bytes_downloaded = Len(hist.base) + Len(hist.delivered)
    /\ BodyDestination = hist.base \o hist.delivered

C5_Witness ==
  req.state = 1 /\ hist.mode = "length" /\ hist.base # <<>> /\ hist.delivered # <<>>

\* C6 as claimed: when the peer closes or a read fails during the status
\* line, the headers or a body that is not complete under chunked or
\* content-length framing, the request ends in error with a message, never
\* in done.
C6_ReadFailureIsError ==
  (hist.rd_fail /\ req.state # 0) => (req.state = 2 /\ req.error # <<>>)

\* C7 as claimed: after a chunked response that ends in done, the body size
\* is the sum of the chunk sizes the chunk-size lines announced and the body
\* is the concatenation of the chunk payloads.
C7_ChunkedBodyIsPayload ==
  (req.state = 1 /\ hist.mode = "chunked") =>
    /\ Len(hist.delivered) = hist.announced
    /\ hist.delivered = hist.payload
    /\ BodyDestination = hist.base \o hist.payload

C9_TooManyRedirects ==
  /\ req.error = MSG_too_many_10 => (req.state = 2 /\ hist.hops = MAX_REDIRECTS + 1)
  /\ (hist.hops = MAX_REDIRECTS + 1 /\ w.pc \in {"ret", "exited"}) =>
       (req.state = 2 /\ req.error = MSG_too_many_10)
  /\ (hist.cycles > 0 /\ hist.hops <= MAX_REDIRECTS /\ w.pc # "loop") =>
       hist.cycles = hist.hops + 1

C9_Witness == req.error = MSG_too_many_10 /\ w.pc = "exited"

\* C10 as claimed: the worker runs the parse-connect-send-read cycle at
\* most 10 times and opens at most 10 connections.
C10_AtMostTenCycles == hist.cycles <= 10 /\ hist.conns <= 10

\* C10 as amended: the worker runs the cycle at most MAX_REDIRECTS + 1 = 11
\* times and opens at most 11 connections.
C10_AtMostElevenCycles ==
  hist.cycles <= MAX_REDIRECTS + 1 /\ hist.conns <= MAX_REDIRECTS + 1

C10_Witness == hist.conns = MAX_REDIRECTS + 1 /\ hist.cycles = MAX_REDIRECTS + 1

\* the Location the response carried: the value of its last Location header
SeenLocation(raw) ==
  LET vs == ValuesOf(RawLines(raw), STR_location)
  IN  IF vs = <<>> THEN <<>> ELSE vs[Len(vs)]

\* a step that follows a redirect
FollowsRedirect == hist'.hops = hist.hops + 1

\* the next URL as C11 states it
C11_NextUrl(url, loc) ==
  IF Head(loc) = SLASH
  THEN (IF url.https THEN STR_https ELSE STR_http) \o url.host
       \o (IF url.port # (IF url.https THEN STR_443 ELSE STR_80)
           THEN <<COLON>> \o url.port ELSE <<>>)
       \o loc
  ELSE loc

\* C11 as claimed: on a followed redirect the next URL is scheme + host +
\* (":" + port when it is not the scheme default) + Location when Location
\* starts with "/", else Location itself; the method becomes GET exactly
\* when the status is 303 and is unchanged otherwise.
C11_RedirectTarget ==
  [][ FollowsRedirect =>
        /\ w'.current_url = C11_NextUrl(w.url, SeenLocation(req.response_headers_raw))
        /\ req'.method = IF req.status_code = 303 THEN STR_GET ELSE req.method
    ]_vars

RedirectClass == {301, 302, 303, 307, 308}

\* C12: a response is followed as a redirect only when its status is in the
\* redirect class and it carried a non-empty Location; a response whose body
\* is read (a framing was selected for it) is not such a response.
C12_RedirectIff ==
  /\ [](hist.mode # "none" =>
          ~(req.status_code \in RedirectClass
            /\ SeenLocation(req.response_headers_raw) # <<>>))
  /\ [][ FollowsRedirect =>
           /\ req.status_code \in RedirectClass
           /\ SeenLocation(req.response_headers_raw) # <<>>
       ]_vars

C12_Witness ==
  req.state = 1 /\ req.status_code = 302 /\ hist.hops = 1 /\ req.response_body # <<>>

\* the request asks to resume an existing, non-empty file
AsksResume ==
  req.output_path # <<>> /\ ~req.output_override
  /\ hist.file0 # NoFile /\ Len(hist.file0) > 0

\* C13: on a resume (output path, override false, existing file of size
\* > 0) a final 206 leaves the file holding its old content followed by the
\* received body; a final 200 truncates: resume_offset is 0 and the file
\* holds only the received body.  The file is opened at most once, it is
\* untouched before that, and no redirect is followed after it.
C13_ResumeOrRestart ==
  /\ [](/\ hist.opens <= 1
        /\ hist.opens = 0 => file = hist.file0
        /\ (AsksResume /\ hist.opens = 1 /\ req.status_code = 200 /\ w.pc # "exited") =>
             w.resume_offset = 0
        /\ (AsksResume /\ req.state = 1) =>
             /\ hist.opens = 1
             /\ req.status_code = 206 => file = hist.file0 \o hist.delivered
             /\ req.status_code = 200 => file = hist.delivered)
  /\ [][hist.opens > 0 => ~FollowsRedirect]_vars

C13_Witness ==
  /\ AsksResume /\ req.state = 1 /\ req.status_code = 206
  /\ hist.hops = 1 /\ hist.delivered # <<>>

\* "Range: bytes=", "Content-Length: " and the other fixed text of a request
C14_Line(s) == s \o <<CR, LF>>

RECURSIVE C14_UserHeaders(_)
C14_UserHeaders(hs) ==
  IF hs = <<>> THEN <<>>
  ELSE C14_Line(Head(hs).name \o <<COLON, SP>> \o Head(hs).value) \o C14_UserHeaders(Tail(hs))

\* the request C14 describes, for the hop in progress
C14_Expected ==
  LET offset == IF req.output_path # <<>> /\ ~req.output_override /\ hist.file0 # NoFile
                THEN Len(hist.file0) ELSE 0
  IN  C14_Line(req.method \o <<SP>> \o w.url.path \o <<SP, 72, 84, 84, 80, 47, 49, 46, 49>>)
      \o C14_Line(<<72, 111, 115, 116, 58, 32>> \o w.url.host)
      \o STR_user_agent
      \o STR_conn_close
      \o C14_UserHeaders(req.headers)
      \o (IF offset > 0 THEN C14_Line(STR_range \o FormatDec(offset) \o <<45>>) ELSE <<>>)
      \o (IF req.body # <<>> THEN C14_Line(STR_cl_hdr \o FormatDec(Len(req.body))) ELSE <<>>)
      \o <<CR, LF>>
      \o req.body

C15_DescriptorImmutable ==
  [][ /\ req'.url = req.url
      /\ req'.method = req.method
      /\ req'.body = req.body
      /\ req'.headers = req.headers
      /\ req'.output_path = req.output_path
      /\ req'.output_override = req.output_override
    ]_vars

TlsInitMessages == {MSG_tls_crypto, MSG_tls_ssl, MSG_tls_syms}

\* C16: a connection for a secure URL is attempted only after TLS
\* initialisation succeeded; when the initialisation fails the request is in
\* error and no connection was attempted in that hop (every earlier hop made
\* exactly one attempt).
C16_TlsFailureBeforeConnect ==
  /\ (w.pc = "connect" /\ w.url.https) => tls_loaded
  /\ hist.attempts <= hist.cycles
  /\ (req.state = 2 /\ req.error \in TlsInitMessages) =>
       (hist.attempts = hist.cycles - 1 /\ w.conn # "open")

C16_Witness ==
  req.state = 2 /\ req.error \in TlsInitMessages /\ w.pc = "exited" /\ hist.cycles = 1

\* C17 as claimed: while no acquisition fails, the acquisition step of
\* _tls_init runs at most once however the callers interleave, and no caller
\* uses the global handle / symbol table while another caller is writing it.
C17_TlsInitOneShot ==
  /\ ~th.acquire_failed => th.acquisitions <= 1
  /\ \A t \in Threads, u \in Threads :
       ~(th.pc[t] = "tls_use" /\ th.pc[u] = "tls_writing")

\* C18 as claimed: while no WSAStartup fails, WSAStartup is called at most
\* once and no call of _winsock_init has returned false.
C18_WinsockInitGuarded ==
  ~th.startup_failed => (th.startups <= 1 /\ ~th.ws_false)

\* what C19 says of an accepted URL put together from pieces
C19_Fields(p) ==
  [ok |-> TRUE,
   https |-> p.scheme = STR_https,
   host |-> p.host,
   port |-> IF p.port = <<>> THEN (IF p.scheme = STR_https THEN STR_443 ELSE STR_80)
            ELSE Tail(p.port),
   path |-> IF p.path = <<>> THEN STR_slash ELSE p.path]

\* C19 as claimed: only URLs starting with http:// or https:// are
\* accepted; of an accepted URL the host is the text up to the first "/" or
\* ":", a ":" after the first "/" belongs to the path, a missing port is 443
\* or 80, a missing path is "/", and the path is everything from the first
\* "/" on, verbatim.
C19_UrlFields ==
  (ev.fn = "_url_parse" /\ ev.done /\ ev.out.ok) =>
    /\ ev.pieces.scheme \in {STR_http, STR_https}
    /\ ev.out = C19_Fields(ev.pieces)

\* C20 as claimed: a host longer than 255 bytes, a port longer than 7 or a
\* path longer than 2047 makes _url_parse return false; an accepted URL has
\* no field cut short.
C20_OverflowIsFailure ==
  (ev.fn = "_url_parse" /\ ev.done) =>
    LET f == C19_Fields(ev.pieces)
    IN  /\ (Len(f.host) > HOST_SIZE - 1 \/ Len(f.port) > PORT_SIZE - 1
             \/ Len(f.path) > PATH_SIZE - 1) => ~ev.out.ok
        /\ ev.out.ok => /\ Len(ev.out.host) = Len(f.host)
                        /\ Len(ev.out.port) = Len(f.port)
                        /\ Len(ev.out.path) = Len(f.path)

\* ------------------------------------------------------------------------
\* C21: URL round trip.  For every input _url_parse accepts, the text
\* scheme://host[:port]path rebuilt from the parsed fields is accepted too
\* and parses to the same scheme flag, host, port and path.
\* ------------------------------------------------------------------------
C21_UrlRoundTrip ==
  (ev.fn = "_url_parse" /\ ev.again) =>
    /\ ev.out2.ok
    /\ ev.out2.https = ev.out.https
    /\ ev.out2.host = ev.out.host
    /\ ev.out2.port = ev.out.port
    /\ ev.out2.path = ev.out.path

\* a default port made explicit and a colon in the path, parsed again
C21_Witness ==
  /\ ev.fn = "_url_parse"
  /\ ev.again
  /\ ev.out.https
  /\ ev.out.port = STR_443
  /\ ev.out.path = <<47,120,58,121,47,122>>
  /\ ev.arg2 # ev.arg

\* the position of the first CR that is followed by LF, 0 when there is none
FirstCrLf(s) ==
  LET at == {i \in 1..(Len(s) - 1) : s[i] = CR /\ s[i + 1] = LF}
  IN  IF at = {} THEN 0 ELSE CHOOSE i \in at : \A j \in at : i <= j

\* ------------------------------------------------------------------------
\* C22 as claimed: _read_line returns exactly the bytes before the first
\* CR LF of the stream and consumes through that CR LF; a CR not followed by
\* LF stays in the line as data ("a" CR CR LF yields "a" CR); it fails when
\* the stream ends before a CR LF.
\* ------------------------------------------------------------------------
C22_LineIsPrefixBeforeCrLf ==
  (ev.fn = "lines" /\ ev.line_done) =>
    LET i == FirstCrLf(ev.arg)
    IN  IF i = 0 THEN ~ev.line_out.ok
        ELSE /\ ev.line_out.ok
             /\ ev.line_out.line = Take(ev.arg, i - 1)
             /\ ev.line_out.rest = Drop(ev.arg, i + 1)

\* ------------------------------------------------------------------------
\* C23 as claimed: the chunk size is the value of the longest leading run of
\* hex digits of the chunk-size line, upper or lower case, stopping at the
\* first other character: "4;a" and "4" both give 4.
\* ------------------------------------------------------------------------
C23_ChunkSizeIsLeadingHex ==
  (ev.fn = "lines" /\ ev.hex_done) => ev.hex_out = LeadingHexValue(ev.arg, 0)

\* ------------------------------------------------------------------------
\* C24: whenever the lifecycle state is error, the error buffer holds a
\* non-empty message, whatever kind of failure led there.
\* ------------------------------------------------------------------------
C24_ErrorHasMessage ==
  req.state = 2 => req.error # <<>>

\* _conn_connect failed without a message of its own and the worker's
\* "connection to host:port failed" took its place
C24_Witness ==
  /\ req.state = 2
  /\ HasPrefix(req.error, MSG_connection_to)
  /\ hist.attempts > 0

C26_Required == OsslSymbols \ {"SSL_CTX_ctrl"}

\* ------------------------------------------------------------------------
\* C26 as claimed: when any symbol of the required set (initialisation,
\* client-method factory, context create/destroy, session create/destroy,
\* fd binding, connect, read, write, shutdown, control, error query) does
\* not resolve, _tls_init fails and reports TLS unavailable; no call of the
\* connect, read, write and close paths goes through a null pointer.
\* ------------------------------------------------------------------------
C26_MissingSymbolFailsLoad ==
  (ev.fn = "_tls_init" /\ ev.pc # "load") =>
    /\ (ev.crypto /\ ev.ssl /\ ~(C26_Required \subseteq ev.resolved))
         => (~ev.loaded /\ ev.err = MSG_tls_syms)
    /\ ev.fault = "none"

\* ------------------------------------------------------------------------
\* C27: termination.  Every socket, TLS and file operation returning and
\* the peer sending a finite response and closing, every execution of
\* _http_worker eventually sets the lifecycle state to done or error.
\* ------------------------------------------------------------------------
C27_WorkerTerminates ==
  <>(req.state \in {1, 2})

\* the worker has gone through a redirect and a chunked body and has left
\* with the state stored
C27_Witness ==
  /\ w.pc = "exited"
  /\ req.state = 1
  /\ hist.hops > 0
  /\ hist.mode = "chunked"

\* ------------------------------------------------------------------------
\* C30 as claimed: _schannel_send returns the plaintext length only when the
\* whole encrypted record of header + len + trailer bytes was handed to the
\* socket; on every failure, a socket send that accepts only part of the
\* record included, it returns -1.
\* ------------------------------------------------------------------------
C30_SendAllOrFail ==
  (ev.fn = "_schannel_send" /\ ev.returned /\ ev.data # <<>>) =>
    IF ev.wire = EncryptMessage(ev.data, ev.cbHeader, ev.cbTrailer)
    THEN ev.ret = Len(ev.data)
    ELSE ev.ret = -1

\* a spill of plaintext is waiting to be returned
SpillPending == ev.plain_buffer # NIL /\ ev.plain_offset < ev.plain_len

\* the step about to be taken is a DecryptMessage on the bytes held
AtDecrypt == ev.fn = "_schannel_recv" /\ ev.pc = "loop" /\ ev.read_buffer_len > 0

\* ------------------------------------------------------------------------
\* C28 as claimed: whatever the split of the records across socket reads
\* and whatever lengths the caller asks for, the bytes successive
\* _schannel_recv calls return are, in order, the plaintexts of the records,
\* none lost, duplicated or reordered, all of them returned by the time the
\* end of the stream is reported; no record is decrypted while spilled
\* plaintext waits.
\* ------------------------------------------------------------------------
C28_PlaintextIntact ==
  /\ [](ev.fn = "_schannel_recv" =>
          /\ ev.out = Take(StreamPlain(ev.in.recs), Len(ev.out))
          /\ (ev.pc = "returned" /\ ev.ret = 0) => ev.out = StreamPlain(ev.in.recs))
  /\ [][AtDecrypt => ~SpillPending]_vars

\* ------------------------------------------------------------------------
\* C29: the encrypted-input buffer of _schannel_recv.  read_buffer_len never
\* exceeds read_buffer_cap; on INCOMPLETE_MESSAGE the bytes held stay as a
\* prefix with the new bytes behind them, the capacity doubled when it was
\* full; after a successful decrypt the buffer holds exactly the EXTRA bytes
\* the platform reported, moved to the front, and is empty when there are
\* none.
\* ------------------------------------------------------------------------
C29_ReadBufferInvariant ==
  /\ [](ev.fn = "_schannel_recv" => ev.read_buffer_len <= ev.read_buffer_cap)
  /\ [][AtDecrypt =>
          LET held == Take(ev.read_buffer, ev.read_buffer_len)
              d    == DecryptMessage(held)
          IN  /\ d.status = "INCOMPLETE_MESSAGE" =>
                   /\ Take(ev'.read_buffer, ev.read_buffer_len) = held
                   /\ ev'.read_buffer_len >= ev.read_buffer_len
                   /\ Len(ev'.read_buffer) = ev'.read_buffer_len
                   /\ ev'.read_buffer_cap \in
                        {ev.read_buffer_cap,
                         IF ev.read_buffer_len >= ev.read_buffer_cap
                         THEN 2 * ev.read_buffer_cap ELSE ev.read_buffer_cap}
              /\ d.status = "OK" =>
                   /\ ev'.read_buffer_len = d.extra
                   /\ ev'.read_buffer = SubSeq(held, Len(held) - d.extra + 1, Len(held))]_vars

\* a record longer than the buffer made the capacity double, and the two
\* bytes of the next record that came with its end are at the front
C29_Witness ==
  /\ ev.fn = "_schannel_recv"
  /\ ev.status = "OK"
  /\ ev.read_buffer_cap = 2 * READ_BUFFER_CAP
  /\ ev.read_buffer = <<1, 225>>
  /\ ev.read_buffer_len = 2
\* ------------------------------------------------------------------------
\* Properties of the Secure Channel handshake, of _conn_connect and of the
\* worker's resources
\* ------------------------------------------------------------------------
HsTimeout == "TLS handshake timeout (too many iterations)"

\* C31: the handshake loop calls InitializeSecurityContextA at most 100
\* times; it returns true only when the latest result is OK; any result
\* other than OK, CONTINUE_NEEDED and INCOMPLETE_MESSAGE and any failed
\* send or recv ends it with false at once; and when 100 iterations have
\* passed without OK the next step returns false with the too-many-
\* iterations message.
C31_HandshakeBounded ==
  /\ [](ev.fn = "_schannel_handshake" =>
          /\ ev.calls <= MAX_HANDSHAKE_ITERATIONS
          /\ (ev.pc = "returned" /\ ev.ret => ev.status = "OK")
          /\ (ev.status \notin {"none", "OK", "CONTINUE_NEEDED", "INCOMPLETE_MESSAGE"}
                => ev.pc = "returned" /\ ~ev.ret)
          /\ (ev.err # "" => ev.pc = "returned" /\ ~ev.ret)
          /\ (ev.err = HsTimeout => ev.calls = MAX_HANDSHAKE_ITERATIONS /\ ev.status # "OK"))
  /\ [][(ev.fn = "_schannel_handshake" /\ ev.pc = "loop"
           /\ ev.calls = MAX_HANDSHAKE_ITERATIONS)
          => (ev'.pc = "returned" /\ ~ev'.ret /\ ev'.err = HsTimeout
              /\ ev'.calls = ev.calls)]_vars

C31_Witness ==
  /\ ev.fn = "_schannel_handshake"
  /\ ev.pc = "returned"
  /\ ev.err = HsTimeout
  /\ ev.calls = MAX_HANDSHAKE_ITERATIONS

\* the bytes the next call of InitializeSecurityContextA is given, the last
\* n bytes of a buffer, and the bytes held in the connection's read buffer
HsNextInput == Take(ev.receive_buffer, ev.receive_len)

HsTail(s, n) == SubSeq(s, Len(s) - n + 1, Len(s))

HsReadBuffer ==
  IF ev.read_buffer = NIL THEN <<>> ELSE Take(ev.read_buffer, ev.read_buffer_len)

\* C32: across the handshake loop no received byte is dropped or presented
\* twice: after INCOMPLETE_MESSAGE the next input is the previous input
\* followed by the bytes just received; after CONTINUE_NEEDED with EXTRA the
\* next input is exactly the EXTRA bytes and nothing was read; after
\* CONTINUE_NEEDED without EXTRA the next input is a fresh read; and when
\* the handshake succeeds with EXTRA bytes the connection's read buffer
\* holds exactly those bytes, so that the bytes the platform consumed
\* followed by the bytes still held are all the bytes received.
C32_HandshakeByteAccounting ==
  ev.fn = "_schannel_handshake" =>
    /\ (ev.pc = "loop" /\ ev.status = "INCOMPLETE_MESSAGE")
         => (HsNextInput = ev.input \o ev.fresh /\ ev.fresh # <<>>)
    /\ (ev.pc = "loop" /\ ev.status = "CONTINUE_NEEDED" /\ ev.extra > 0)
         => (HsNextInput = HsTail(ev.input, ev.extra) /\ ev.fresh = <<>>)
    /\ (ev.pc = "loop" /\ ev.status = "CONTINUE_NEEDED" /\ ev.extra = 0)
         => (HsNextInput = ev.fresh /\ ev.fresh # <<>>)
    /\ (ev.pc = "loop" /\ ev.calls > 0) => ev.consumed \o HsNextInput = ev.got
    /\ (ev.pc = "returned" /\ ev.ret /\ ev.extra > 0)
         => HsReadBuffer = HsTail(ev.input, ev.extra)
    /\ (ev.pc = "returned" /\ ev.ret) => ev.consumed \o HsReadBuffer = ev.got

\* the first address at which the connection is made, 0 when there is none
FirstConnected(addrs) ==
  IF \E k \in 1..Len(addrs) : addrs[k] = "connected"
  THEN CHOOSE k \in 1..Len(addrs) :
         addrs[k] = "connected" /\ \A j \in 1..(k - 1) : addrs[j] # "connected"
  ELSE 0

\* the addresses at which socket() gives a socket, in list order, up to and
\* including address n
RECURSIVE SocketsUpTo(_, _)
SocketsUpTo(addrs, n) ==
  IF n = 0 THEN <<>>
  ELSE SocketsUpTo(addrs, n - 1) \o (IF addrs[n] = "nosocket" THEN <<>> ELSE <<n>>)

\* C33: _conn_connect tries the resolved addresses in order and stops at the
\* first that connects; a socket whose connect failed is closed before the
\* next address is tried; when the call returns false no socket it created
\* is open and conn.sock is invalid; when it returns true the only open
\* socket is the connected one; and when every address failed the message
\* is "connect(host:port) failed: " followed by the last error number.
C33_ConnectTriesInOrder ==
  ev.fn = "_conn_connect" =>
    /\ (ev.pc = "loop" => ev.open = {} /\ ev.tried = SocketsUpTo(ev.addrs, ev.rp - 1))
    /\ (ev.pc = "after" =>
          /\ ev.rp = FirstConnected(ev.addrs)
          /\ ev.tried = SocketsUpTo(ev.addrs, ev.rp)
          /\ ev.open \subseteq {ev.rp})
    /\ (ev.returned /\ ~ev.ret => ev.open = {} /\ ev.conn_sock = INVALID_SOCK)
    /\ (ev.returned /\ ev.ret =>
          ev.open = {ev.conn_sock} /\ ev.conn_sock = FirstConnected(ev.addrs))
    /\ (ev.returned /\ ev.pc = "loop" =>
          /\ FirstConnected(ev.addrs) = 0
          /\ ev.err = MSG_connect \o ev.host \o <<COLON>> \o ev.port \o MSG_failed_colon
                        \o FormatDec(AddrErrno(ev.addrs[Len(ev.addrs)])))

C33_Witness ==
  /\ ev.fn = "_conn_connect"
  /\ ev.returned /\ ~ev.ret /\ ev.pc = "loop"
  /\ Len(ev.tried) = 2
  /\ Len(ev.addrs) = 3

\* the header lines of a response text as the raw-headers buffer keeps
\* them (line + LF), and the bytes behind the empty line
RECURSIVE HeadLines(_, _)
HeadLines(s, raw) ==
  LET r == _read_line(s)
  IN  IF ~r.ok \/ r.line = <<>> THEN [raw |-> raw, body |-> r.rest]
      ELSE HeadLines(r.rest, raw \o r.line \o <<LF>>)

\* what a response text amounts to: its status, its raw headers, its
\* Content-Length (-1 without one), whether the worker follows it, its body
ResponseHead(resp) ==
  LET st == _read_line(resp)
      h  == HeadLines(st.rest, <<>>)
  IN  [status |-> parse_status(st.line), raw |-> h.raw, length |-> SawLength(h.raw),
       followed |-> is_redirect(parse_status(st.line), SeenLocation(h.raw)),
       body |-> h.body]

FinalHeads == {ResponseHead(resp) : resp \in Responses}

\* C34: a request that is done holds the status, the raw headers and the
\* content-length counter of one response that was not followed (the counter
\* raised by the resume offset on a resumed 206), and a body in memory that
\* is bytes of that response's body; nothing of a followed redirect
\* response is left.
C34_FinalResponseOnly ==
  req.state = 1 =>
    \E h \in FinalHeads :
      /\ ~h.followed
      /\ req.status_code = h.status
      /\ req.response_headers_raw = h.raw
      /\ \/ req.content_length = h.length
         \/ /\ AsksResume /\ h.status = 206 /\ h.length >= 0
            /\ req.content_length = h.length + Len(hist.file0)
      /\ req.response_body = (IF req.output_path = <<>> THEN hist.delivered ELSE <<>>)
      /\ hist.mode \in {"length", "close"}
           => hist.delivered = Take(h.body, Len(hist.delivered))

C34_Witness ==
  /\ req.state = 1
  /\ hist.hops = 1
  /\ req.status_code = 200
  /\ req.content_length = -1
  /\ req.response_body # <<>>

\* C35: the worker has at most one connection open: a connection is made
\* only while none is open; once the lifecycle is done or error no
\* connection and no output file is open; and an output file that was
\* opened (at most one is) stands closed when the worker returns and is
\* never opened or closed again.
C35_ResourcesReleased ==
  /\ [](/\ hist.opens <= 1
        /\ (req.state \in {1, 2} => w.conn # "open" /\ w.out_file # "open")
        /\ (req.state \in {1, 2} /\ w.pc = "ret"
              => (hist.opens = 1 <=> w.out_file = "closed")))
  /\ [][/\ (hist'.conns = hist.conns + 1 => w.conn # "open" /\ w'.conn = "open")
        /\ (w.out_file = "closed" => w'.out_file # "open" /\ hist'.opens = hist.opens)
        /\ (w.conn = "open" /\ w'.conn # "open" => w'.conn = "closed")]_vars

C35_Witness ==
  /\ req.state = 2
  /\ w.pc = "ret"
  /\ hist.conns = 2
  /\ hist.opens = 1
  /\ w.conn = "closed"
  /\ w.out_file = "closed"

\* the request failed before the headers of a response that is not followed
\* were read: invalid URL, TLS unavailable, resolve / connect / handshake
\* failure, send failure, status-line or header read failure, too many
\* redirects
EarlyFailure ==
  /\ req.state = 2
  /\ \/ HasPrefix(req.error, MSG_invalid_url)
     \/ req.error \in TlsInitMessages
     \/ HasPrefix(req.error, MSG_connection_to)
     \/ req.error \in {MSG_send, MSG_status, MSG_headers}
     \/ HasPrefix(req.error, MSG_too_many)

LengthFramed ==
  /\ w.pc \in {"adjust_total", "body", "length_body", "finish"}
  /\ ~w.chunked
  /\ w.content_length >= 0

\* C37: at every instant of a request read with content-length framing the
\* counters a progress() call would load satisfy downloaded <= total when
\* total >= 0, also while a 206 resume has preset downloaded to the resume
\* offset and is about to raise the total; and bytes_downloaded never
\* decreases.
C37_ProgressConsistent ==
  /\ []((LengthFramed /\ req.content_length >= 0)
          => req.bytes_downloaded <= req.content_length)
  /\ [][req'.bytes_downloaded >= req.bytes_downloaded]_vars

\* the worker is sending the request that follows a 303: a redirect was
\* followed and the status of the response read last is 303
After303 == w.pc = "send" /\ hist.hops > 0 /\ req.status_code = 303

EndsWith(s, t) == Len(s) >= Len(t) /\ SubSeq(s, Len(s) - Len(t) + 1, Len(s)) = t

\* C38: the request built after a followed 303 starts with GET, has no
\* Content-Length header and ends with the empty line of the header block:
\* it carries no body.
C38_SeeOtherSendsBareGet ==
  After303 =>
    /\ HasPrefix(w.sendbuf, STR_GET \o <<SP>>)
    /\ ~strstr(w.sendbuf, STR_cl_hdr)
    /\ EndsWith(w.sendbuf, STR_CRLF \o STR_CRLF)

\* C39: over the life of a request the worker thread is joined once: never
\* a second time, and exactly once by the time the request has been
\* collected.
C39_JoinedExactlyOnce ==
  /\ lua.joins <= 1
  /\ (~lua.ptr => lua.joins = 1)

\* C40: between calls of _schannel_recv the spill is either absent
\* (plain_buffer null, plain_len = plain_offset = 0) or pending (plain_buffer
\* set, plain_offset < plain_len); a spill buffer is put in place only where
\* there is none, and one goes away only by being drained or by _conn_close;
\* after _conn_close the read buffer and the spill buffer are null.
C40_SpillInvariant ==
  /\ []((ev.fn = "_schannel_recv" /\ ev.pc \in {"idle", "returned", "closed"}) =>
          /\ \/ ev.plain_buffer = NIL /\ ev.plain_len = 0 /\ ev.plain_offset = 0
             \/ /\ ev.plain_buffer # NIL
                /\ ev.plain_len = Len(ev.plain_buffer)
                /\ ev.plain_offset < ev.plain_len
          /\ (ev.pc = "closed" => ev.read_buffer = NIL /\ ev.plain_buffer = NIL))
  /\ [][ev.fn = "_schannel_recv" =>
          /\ (ev'.plain_buffer # NIL /\ ev'.plain_buffer # ev.plain_buffer)
               => ev.plain_buffer = NIL
          /\ (ev.plain_buffer # NIL /\ ev'.plain_buffer = NIL)
               => (ev'.pc = "closed" \/ (ev'.status = "spill" /\ ev.pc = "idle"))]_vars

C40_Witness ==
  /\ ev.fn = "_schannel_recv"
  /\ ev.pc = "idle"
  /\ ev.plain_buffer # NIL
  /\ ev.plain_offset > 0
  /\ ev.plain_offset < ev.plain_len


====
